---- MODULE Spec2Model ----
(***************************************************************************)
(* Verification model of apt-remote: the manifest (uri.toml) and its load  *)
(* and save, the ssh primitives (session, exec, sudo, scp_upload), and the *)
(* set, get, install and update commands.                                  *)
(***************************************************************************)
EXTENDS FiniteSets, Integers, Naturals, Sequences, TLC

\* ------------------------------------------------------------------------
\* Bounds of the model
\* ------------------------------------------------------------------------

\* number of distinct package keys a manifest may hold
MaxPkgs == 2

\* longest install_order of a manifest
MaxOrder == 2

\* channel-level failures (Err results of exec, sudo, scp_upload, connect)
\* injected into one run of a command
MaxFaults == 1

\* ------------------------------------------------------------------------
\* Data model (src/src/uri.rs)
\* ------------------------------------------------------------------------

\* Option<T>: None is the empty sequence, Some(v) the sequence holding v
None == <<>>

Some(v) == <<v>>

Unwrap(o) == o[1]

\* enum ChecksumKind
ChecksumKind == {"SHA256", "MD5"}

\* enum RemoteMode
RemoteMode == {"Install", "Update", "Upgrade"}

\* package keys are file names: the sequence of their dot-separated parts,
\* a numbered stem first
Fname(stem, ext) == <<stem, ext>>

Debs == {Fname(s, "deb") : s \in 1..MaxPkgs}

\* contents a file may have: c1 is the artifact the manifest describes,
\* c2 any other byte sequence (corrupted, truncated, tampered, empty)
Contents == {"c1", "c2"}

\* digest printed by a checksum tool for a file content
Digest(tool, content) == <<tool, content>>

\* struct Checksum
Checksum(kind, value) == [kind |-> kind, value |-> value]

\* struct PackageEntry
PackageEntry(uri, size, checksum) == [uri |-> uri, size |-> size, checksum |-> checksum]

\* struct UriFile
UriFile(mode, arch, total_size, install_order, packages) ==
    [mode |-> mode, arch |-> arch, total_size |-> total_size,
     install_order |-> install_order, packages |-> packages]

\* sequences over S of length at most n
SeqsUpTo(S, n) == UNION {[1..m -> S] : m \in 0..n}

\* all orders in which a set can be enumerated
Perms(S) == {p \in [1..Cardinality(S) -> S] : \A x \in S : \E j \in DOMAIN p : p[j] = x}

\* ------------------------------------------------------------------------
\* URIs and their validation (src/src/uri.rs, validate_uri)
\* ------------------------------------------------------------------------

\* a URI is the sequence of its characters
HttpUri  == <<"h","t","t","p",":","/","/","h","/","a">>
HttpsUri == <<"h","t","t","p","s",":","/","/","h","/","a">>
FtpUri   == <<"f","t","p",":","/","/","h","/","a">>
UpperUri == <<"H","T","T","P",":","/","/","h","/","a">>
FileUri  == <<"f","i","l","e",":","/","/","/","a">>
NoSchemeUri == <<"h","/","a">>
NoHostUri == <<"h","t","t","p",":","/","/">>

Letters == {"a","e","f","h","i","l","p","s","t","H","T","P"}

\* ASCII lower-casing of the characters the model uses
Lower(c) == CASE c = "H" -> "h" [] c = "T" -> "t" [] c = "P" -> "p" [] OTHER -> c

\* index of the first ":" of a URI, 0 when there is none
RECURSIVE ColonAt(_, _)
ColonAt(uri, j) ==
    IF j > Len(uri) THEN 0
    ELSE IF uri[j] = ":" THEN j
    ELSE ColonAt(uri, j + 1)

\* the characters after the leading slashes of s
RECURSIVE StripSlashes(_)
StripSlashes(s) ==
    IF s # <<>> /\ Head(s) = "/" THEN StripSlashes(Tail(s)) ELSE s

\* schemes for which the url crate requires a host
SpecialSchemes == {<<"h","t","t","p">>, <<"h","t","t","p","s">>, <<"f","t","p">>}

\* Url::parse: the scheme is the lower-cased run of letters before the first
\* ":"; a URI without such a scheme is relative and does not parse; http,
\* https and ftp URIs need a non-empty host
UrlParse(uri) ==
    LET c == ColonAt(uri, 1)
        scheme == [j \in 1..(c - 1) |-> Lower(uri[j])]
        rest == StripSlashes(SubSeq(uri, c + 1, Len(uri)))
    IN  IF c <= 1 \/ \E j \in 1..(c - 1) : uri[j] \notin Letters
        THEN [ok |-> FALSE, scheme |-> <<>>]
        ELSE IF scheme \in SpecialSchemes /\ (rest = <<>>)
        THEN [ok |-> FALSE, scheme |-> scheme]
        ELSE [ok |-> TRUE, scheme |-> scheme]

\* the schemes validate_uri allows
AllowedSchemes == {<<"h","t","t","p">>, <<"h","t","t","p","s">>, <<"f","t","p">>}

\* a faulty validate_uri: every URI that parses is accepted
validate_uri_AnyScheme(uri) == UrlParse(uri).ok

\* validate_uri: TRUE when the URI parses and its scheme is allowed
validate_uri(uri) ==
    LET parsed == UrlParse(uri)
    IN  parsed.ok /\ parsed.scheme \in AllowedSchemes


\* ------------------------------------------------------------------------
\* Manifest file: TOML text, UriFile::load and UriFile::save (src/src/uri.rs)
\* ------------------------------------------------------------------------

\* bits of the integer types of the model: u64 is modelled by IntBits
\* unsigned bits, the signed 64-bit integer of a TOML document by IntBits
\* bits with a sign
IntBits == 3

U64Max == 2 ^ IntBits - 1

I64Max == 2 ^ (IntBits - 1) - 1

\* the function with no argument: a table without keys
EmptyTable == [k \in {} |-> 0]

\* a TOML table holding the checksum of an entry
ChecksumToToml(c) == ("kind" :> c.kind) @@ ("value" :> c.value)

\* a PackageEntry as a TOML table; a None checksum leaves no key
EntryToToml(e) ==
    ("uri" :> e.uri) @@ ("size" :> e.size) @@
    (IF e.checksum = None THEN EmptyTable ELSE "checksum" :> ChecksumToToml(Unwrap(e.checksum)))

\* toml::to_string of a UriFile: the document as a table of tables; the
\* fields of type Option that are None are left out, and an unsigned value
\* above the largest TOML integer is refused
to_string(u) ==
    IF (u.total_size # None /\ Unwrap(u.total_size) > I64Max)
       \/ \E f \in DOMAIN u.packages : u.packages[f].size > I64Max
    THEN [ok |-> FALSE, doc |-> EmptyTable]
    ELSE [ok |-> TRUE,
          doc |-> ("mode" :> u.mode) @@ ("arch" :> u.arch) @@
                  (IF u.total_size = None THEN EmptyTable
                   ELSE "total_size" :> Unwrap(u.total_size)) @@
                  ("install_order" :> u.install_order) @@
                  ("packages" :> [f \in DOMAIN u.packages |-> EntryToToml(u.packages[f])])]

\* a checksum table read back
ChecksumFromToml(t) == Checksum(t["kind"], t["value"])

\* a faulty EntryFromToml: the checksum table is not read
EntryFromToml_NoChecksum(t) == PackageEntry(t["uri"], t["size"], None)

\* an entry table read back; a missing checksum key gives None
EntryFromToml(t) ==
    PackageEntry(t["uri"], t["size"],
                 IF "checksum" \in DOMAIN t THEN Some(ChecksumFromToml(t["checksum"]))
                 ELSE None)

\* TRUE when the table has every key the struct requires and its integers
\* fit the target type
EntryWellTyped(t) ==
    /\ {"uri", "size"} \subseteq DOMAIN t
    /\ t["size"] \in 0..I64Max
    /\ "checksum" \in DOMAIN t =>
          /\ DOMAIN t["checksum"] = {"kind", "value"}
          /\ t["checksum"]["kind"] \in ChecksumKind

\* toml::from_str into a UriFile
from_str(doc) ==
    IF /\ {"mode", "arch", "install_order", "packages"} \subseteq DOMAIN doc
       /\ doc["mode"] \in RemoteMode
       /\ ("total_size" \in DOMAIN doc => doc["total_size"] \in 0..I64Max)
       /\ \A f \in DOMAIN doc["packages"] : EntryWellTyped(doc["packages"][f])
    THEN [ok |-> TRUE,
          val |-> UriFile(doc["mode"], doc["arch"],
                          IF "total_size" \in DOMAIN doc THEN Some(doc["total_size"]) ELSE None,
                          doc["install_order"],
                          [f \in DOMAIN doc["packages"] |-> EntryFromToml(doc["packages"][f])])]
    ELSE [ok |-> FALSE, val |-> UriFile("Install", "", None, <<>>, EmptyTable)]

\* what the path of a manifest may hold: nothing, text that is no manifest
\* (no TOML, a truncated or partly written document), or a TOML document
NoFile == [state |-> "missing", doc |-> EmptyTable]

Garbage == [state |-> "malformed", doc |-> EmptyTable]

TomlFile(doc) == [state |-> "toml", doc |-> doc]

\* the first package, in the iteration order of the map, whose URI is
\* rejected; None when every URI is valid
RECURSIVE FirstInvalid(_, _)
FirstInvalid(packages, order) ==
    IF order = <<>> THEN None
    ELSE IF \E uri \in {packages[Head(order)].uri} : ~validate_uri(uri) THEN Some(Head(order))
    ELSE FirstInvalid(packages, Tail(order))

\* UriFile::load: order is the iteration order of the parsed packages map
load(file, order) ==
    IF file.state = "missing" THEN [ok |-> FALSE, err |-> "read", pkg |-> None, val |-> None]
    ELSE IF file.state = "malformed" \/ ~from_str(file.doc).ok
    THEN [ok |-> FALSE, err |-> "parse", pkg |-> None, val |-> None]
    ELSE LET parsed == from_str(file.doc).val
             bad == FirstInvalid(parsed.packages, order)
         IN  IF bad # None
             THEN [ok |-> FALSE, err |-> "uri", pkg |-> bad, val |-> None]
             ELSE [ok |-> TRUE, err |-> "", pkg |-> None, val |-> Some(parsed)]

\* the order in which a HashMap yields its keys: arbitrary, and fixed for a
\* given map.  The names of the keys carry no meaning in the model, and the
\* manifests range over every assignment of entries to keys and every
\* install_order, so fixing one order per key set loses no arrangement of
\* the iteration order against the entries and against install_order
IterOrder(packages) == CHOOSE p \in Perms(DOMAIN packages) : TRUE

\* the iteration order of the packages map a file parses into
FileOrder(file) ==
    IF file.state # "toml" \/ ~from_str(file.doc).ok THEN <<>>
    ELSE IterOrder(from_str(file.doc).val.packages)


\* ------------------------------------------------------------------------
\* State
\* ------------------------------------------------------------------------

VARIABLES
    disk,        \* the file <cache>/apt-remote/<name>/uri.toml
    uri_file,    \* Option<UriFile>: the manifest the command holds in memory
    order,       \* iteration order of uri_file.packages (a HashMap)
    pc,          \* position of the running command
    i,           \* index of the loop the command is in
    log,         \* every remote operation attempted so far, in order
    remote,      \* content of /tmp/apt-remote/<name>/<fname> on the target
    archives,    \* files moved into /var/cache/apt/archives
    mismatches,  \* verify_remote_checksums: the mismatches collected
    faults,      \* failures injected so far into the running command
    result,      \* what the command returned
    loaded,      \* what UriFile::load returned for the file last saved
    files,       \* the local download directory: the content of each path
    task,        \* get: position of the worker of each package
    http,        \* get: the response to the HTTP request of each package, this run
    prev,        \* get: how the previous run of the command on this cache went
    session,     \* ssh: the ssh2 session: authenticated state, calls made on it
    wire,        \* ssh: every operation attempted on the session, in order
    call,        \* ssh: the call of exec or sudo in progress, or the last one
    print_uris,  \* set: the lines of the remote "apt-get --print-uris" output
    pkg_data,    \* set: the parse result of each line (Vec<Result<_>>)
    built,       \* set: install_order, packages and total_size as assembled so far
    shown,       \* get: the failure messages left on the terminal, per package
    command      \* the subcommand that main dispatched to

vars == <<disk, uri_file, order, pc, i, log, remote, archives, mismatches, faults, result,
          loaded, files, task, http, prev, session, wire, call, print_uris, pkg_data, built,
          shown, command>>

\* the state of the ssh primitives and of the set command
sshVars == <<session, wire, call>>

setVars == <<print_uris, pkg_data, built>>

\* the state the install command does not touch
notInstall == <<loaded, files, task, http, prev, sshVars, setVars, shown, command>>

\* no session was asked for, no call made
NoSession == [state |-> "none", authenticated |-> FALSE, calls |-> 0]

NoCall == [fn |-> "none", cmd |-> <<>>, password |-> "", ch |-> 0, status |-> 0,
           output |-> <<>>, ret |-> "none", val |-> <<>>]

NoSsh == session = NoSession /\ wire = <<>> /\ call = NoCall

\* the set command is not running
NoBuilt == [mode |-> "Install", arch |-> "", install_order |-> <<>>,
            packages |-> EmptyTable, total_size |-> 0]

NoSet == print_uris = <<>> /\ pkg_data = <<>> /\ built = NoBuilt

\* ------------------------------------------------------------------------
\* install command (src/src/commands/install.rs)
\* ------------------------------------------------------------------------

\* the command holds a manifest
Loaded == uri_file # None

\* the argument of a command that names no package file
NoArg == <<0>>

\* the checksum tool of a kind (verify_remote_checksums)
ChecksumTool(kind) == IF kind = "SHA256" THEN "sha256sum" ELSE "md5sum"

\* what a file of the target may hold
RemoteContents == Contents \cup {"absent"}

\* standard output of "<tool> <path>" on the target: digest and path, or
\* nothing when the file does not exist
ChecksumOutput(tool, content, fname) ==
    IF content = "absent" THEN <<>> ELSE <<Digest(tool, content), fname>>

\* output.split_whitespace().next().unwrap_or("ERROR: ...")
ActualChecksum(output) == IF output = <<>> THEN <<"ERROR">> ELSE Head(output)

\* load was not called
NotLoaded == [ok |-> FALSE, err |-> "", pkg |-> None, val |-> None]

\* an empty download directory
NoFiles == EmptyTable

\* the manifests the install command is run against
InstallPackages ==
    UNION {[{Fname(s, "deb") : s \in 1..n} ->
              {PackageEntry(HttpUri, 1, None)} \cup
              {PackageEntry(HttpUri, 1, Some(Checksum(k, Digest(ChecksumTool(k), "c1")))) :
                  k \in ChecksumKind}] : n \in 0..MaxPkgs}

InstallManifests ==
    {UriFile(m, "amd64", IF m = "Update" THEN None ELSE Some(1), io, pk) :
        m \in RemoteMode, io \in SeqsUpTo(Debs, MaxOrder), pk \in InstallPackages}

InstallDisks == {NoFile, Garbage} \cup {TomlFile(to_string(u).doc) : u \in InstallManifests}

InstallInit ==
    /\ disk \in InstallDisks
    /\ uri_file = None
    /\ order = <<>>
    /\ pc = "connect"
    /\ i = 1
    /\ log = <<>>
    /\ remote = [f \in Debs |-> "absent"]
    /\ archives = {}
    /\ mismatches = <<>>
    /\ faults = 0
    /\ result = "running"
    /\ loaded = NotLoaded
    /\ files = NoFiles
    /\ task = EmptyTable
    /\ http = EmptyTable
    /\ prev = "none"
    /\ shown = {}
    /\ command = "install"
    /\ NoSsh
    /\ NoSet

\* one remote operation is attempted and recorded
Record(via, cmd, arg, ok, out) ==
    log' = Append(log, [via |-> via, cmd |-> cmd, arg |-> arg, ok |-> ok, out |-> out])

\* an operation whose output the command does not read
Emit(via, cmd, arg, ok) == Record(via, cmd, arg, ok, <<>>)

\* an operation succeeds, or fails while the failure budget lasts
Outcome(ok) ==
    /\ ok \/ faults < MaxFaults
    /\ faults' = IF ok THEN faults ELSE faults + 1

\* the command ends
Finish(r) == pc' = "done" /\ result' = r

Goto(l) == pc' = l /\ result' = result

\* an exec or sudo call followed by `?`
Fatal(at, via, cmd, next) ==
    /\ pc = at
    /\ \E ok \in BOOLEAN :
          /\ Outcome(ok)
          /\ Emit(via, cmd, NoArg, ok)
          /\ IF ok THEN Goto(next) ELSE Finish("Err")

\* install.rs:54  create_ssh_session(target)?
Connect ==
    /\ Fatal("connect", "ssh", "connect", "whoami")
    /\ UNCHANGED <<disk, uri_file, order, i, remote, archives, mismatches>>
    /\ UNCHANGED notInstall

\* install.rs:57  session.exec("whoami")?
Whoami ==
    /\ Fatal("whoami", "exec", "whoami", "prompt")
    /\ UNCHANGED <<disk, uri_file, order, i, remote, archives, mismatches>>
    /\ UNCHANGED notInstall

\* install.rs:61-63  rpassword::prompt_password(..).ok().unwrap()
Prompt ==
    /\ pc = "prompt"
    /\ \E ok \in BOOLEAN :
          /\ Outcome(ok)
          /\ IF ok THEN Goto("load") ELSE Finish("Panic")
    /\ UNCHANGED <<disk, uri_file, order, i, log, remote, archives, mismatches>>
    /\ UNCHANGED notInstall

\* a faulty Load: the manifest file is consumed by the command that reads it
Load_Consuming ==
    /\ pc = "load"
    /\ LET r == load(disk, FileOrder(disk))
       IN  IF r.ok
           THEN uri_file' = r.val /\ order' = FileOrder(disk) /\ Goto("mode")
           ELSE UNCHANGED <<uri_file, order>> /\ Finish("Err")
    /\ disk' = NoFile
    /\ UNCHANGED <<i, log, remote, archives, mismatches, faults>>
    /\ UNCHANGED notInstall

\* install.rs:72-73  UriFile::load(..)?
Load ==
    /\ pc = "load"
    /\ LET r == load(disk, FileOrder(disk))
       IN  IF r.ok
           THEN uri_file' = r.val /\ order' = FileOrder(disk) /\ Goto("mode")
           ELSE UNCHANGED <<uri_file, order>> /\ Finish("Err")
    /\ UNCHANGED <<disk, i, log, remote, archives, mismatches, faults>>
    /\ UNCHANGED notInstall

\* a faulty ModeCheck: the mode of the manifest is not looked at
ModeCheck_NoRefusal ==
    /\ pc = "mode"
    /\ Goto("mkdir")
    /\ UNCHANGED <<disk, uri_file, order, i, log, remote, archives, mismatches, faults>>
    /\ UNCHANGED notInstall

\* install.rs:76-79  an Update manifest is refused, with Ok(())
ModeCheck ==
    /\ pc = "mode"
    /\ IF Unwrap(uri_file).mode = "Update" THEN Finish("Ok") ELSE Goto("mkdir")
    /\ UNCHANGED <<disk, uri_file, order, i, log, remote, archives, mismatches, faults>>
    /\ UNCHANGED notInstall

\* install.rs:84  session.exec("mkdir -p /tmp/apt-remote/<name>")?
Mkdir ==
    /\ Fatal("mkdir", "exec", "mkdir -p", "cd")
    /\ UNCHANGED <<disk, uri_file, order, i, remote, archives, mismatches>>
    /\ UNCHANGED notInstall

\* install.rs:85  session.exec("cd /tmp/apt-remote/<name>")?
Cd ==
    /\ Fatal("cd", "exec", "cd", "upload")
    /\ UNCHANGED <<disk, uri_file, order, i, remote, archives, mismatches>>
    /\ UNCHANGED notInstall


\* a faulty Upload: a failed upload is tried again
Upload_Retry ==
    /\ pc = "upload"
    /\ i <= Len(order)
    /\ \E ok \in BOOLEAN :
          /\ Outcome(ok)
          /\ Emit("scp", "scp_upload", order[i], ok)
          /\ \E c \in (IF ok THEN Contents ELSE RemoteContents) :
                remote' = [remote EXCEPT ![order[i]] = c]
          /\ i' = IF ok THEN i + 1 ELSE i
    /\ Goto("upload")
    /\ UNCHANGED <<disk, uri_file, order, archives, mismatches>>
    /\ UNCHANGED notInstall

\* a faulty Upload: the Err of scp_upload is returned with `?`
Upload_FailFast ==
    /\ pc = "upload"
    /\ i <= Len(order)
    /\ \E ok \in BOOLEAN :
          /\ Outcome(ok)
          /\ Emit("scp", "scp_upload", order[i], ok)
          /\ \E c \in (IF ok THEN Contents ELSE RemoteContents) :
                remote' = [remote EXCEPT ![order[i]] = c]
          /\ IF ok THEN Goto("upload") ELSE Finish("Err")
    /\ i' = i + 1
    /\ UNCHANGED <<disk, uri_file, order, archives, mismatches>>
    /\ UNCHANGED notInstall

\* install.rs:155-182  upload_archive: one scp_upload per entry of the map;
\* an Err is reported and the loop goes on.  A successful upload leaves the
\* cached file on the target; a failed one leaves whatever was there: nothing,
\* the file of an earlier run (the directory is never emptied before the
\* upload), or the empty file made by `touch` (ssh.rs:172)
Upload ==
    /\ pc = "upload"
    /\ i <= Len(order)
    /\ \E ok \in BOOLEAN :
          /\ Outcome(ok)
          /\ Emit("scp", "scp_upload", order[i], ok)
          /\ \E c \in (IF ok THEN Contents ELSE RemoteContents) :
                remote' = [remote EXCEPT ![order[i]] = c]
    /\ i' = i + 1
    /\ Goto("upload")
    /\ UNCHANGED <<disk, uri_file, order, archives, mismatches>>
    /\ UNCHANGED notInstall

\* a faulty UploadEnd: the run goes from the uploads straight to the installs
UploadEnd_NoVerify ==
    /\ pc = "upload"
    /\ i > Len(order)
    /\ i' = 1
    /\ Goto("install")
    /\ UNCHANGED <<disk, uri_file, order, log, remote, archives, mismatches, faults>>
    /\ UNCHANGED notInstall

\* install.rs:184-189  upload_archive returns Ok(())
UploadEnd ==
    /\ pc = "upload"
    /\ i > Len(order)
    /\ i' = 1
    /\ Goto("verify")
    /\ UNCHANGED <<disk, uri_file, order, log, remote, archives, mismatches, faults>>
    /\ UNCHANGED notInstall

\* a faulty Verify: a checksum command that prints nothing is not counted as a
\* mismatch
Verify_Lenient ==
    /\ pc = "verify"
    /\ i <= Len(order)
    /\ LET fname == order[i]
           pkg_info == Unwrap(uri_file).packages[fname]
       IN  IF pkg_info.checksum = None
           THEN /\ Finish("Panic")
                /\ UNCHANGED <<i, log, mismatches, faults>>
           ELSE LET expected_checksum == Unwrap(pkg_info.checksum).value
                    checksum == ChecksumTool(Unwrap(pkg_info.checksum).kind)
                    output == ChecksumOutput(checksum, remote[fname], fname)
                    actual_checksum == ActualChecksum(output)
                IN  \E ok \in BOOLEAN :
                      /\ Outcome(ok)
                      /\ Record("exec", checksum, fname, ok, IF ok THEN output ELSE <<>>)
                      /\ IF ~ok
                         THEN Goto("cdhome") /\ UNCHANGED <<i, mismatches>>
                         ELSE /\ Goto("verify")
                              /\ i' = i + 1
                              /\ mismatches' =
                                    IF output # <<>> /\ actual_checksum # expected_checksum
                                    THEN Append(mismatches, fname)
                                    ELSE mismatches
    /\ UNCHANGED <<disk, uri_file, order, remote, archives>>
    /\ UNCHANGED notInstall

\* install.rs:216-256  verify_remote_checksums, one entry of the map:
\* checksum.as_ref().unwrap() panics on an entry without checksum; an Err of
\* exec leaves the function through `?`; a differing digest is collected
Verify ==
    /\ pc = "verify"
    /\ i <= Len(order)
    /\ LET fname == order[i]
           pkg_info == Unwrap(uri_file).packages[fname]
       IN  IF pkg_info.checksum = None
           THEN /\ Finish("Panic")
                /\ UNCHANGED <<i, log, mismatches, faults>>
           ELSE LET expected_checksum == Unwrap(pkg_info.checksum).value
                    checksum == ChecksumTool(Unwrap(pkg_info.checksum).kind)
                    output == ChecksumOutput(checksum, remote[fname], fname)
                    actual_checksum == ActualChecksum(output)
                IN  \E ok \in BOOLEAN :
                      /\ Outcome(ok)
                      /\ Record("exec", checksum, fname, ok, IF ok THEN output ELSE <<>>)
                      /\ IF ~ok
                         THEN Goto("cdhome") /\ UNCHANGED <<i, mismatches>>
                         ELSE /\ Goto("verify")
                              /\ i' = i + 1
                              /\ mismatches' =
                                    IF actual_checksum # expected_checksum
                                    THEN Append(mismatches, fname)
                                    ELSE mismatches
    /\ UNCHANGED <<disk, uri_file, order, remote, archives>>
    /\ UNCHANGED notInstall

\* a faulty VerifyEnd: the collected mismatches are not looked at
VerifyEnd_NoGate ==
    /\ pc = "verify"
    /\ i > Len(order)
    /\ Goto("install")
    /\ i' = 1
    /\ UNCHANGED <<disk, uri_file, order, log, remote, archives, mismatches, faults>>
    /\ UNCHANGED notInstall

\* install.rs:259-268  Ok(()) when no mismatch was collected, Err otherwise
VerifyEnd ==
    /\ pc = "verify"
    /\ i > Len(order)
    /\ IF mismatches = <<>> THEN Goto("install") /\ i' = 1
                            ELSE Goto("cdhome") /\ i' = i
    /\ UNCHANGED <<disk, uri_file, order, log, remote, archives, mismatches, faults>>
    /\ UNCHANGED notInstall

\* a faulty CdHome: a failed verification removes the temporary directory
CdHome_Cleanup ==
    /\ pc = "cdhome"
    /\ \E ok \in BOOLEAN :
          /\ Outcome(ok)
          /\ Emit("exec", "rm -rf", NoArg, ok)
          /\ remote' = IF ok THEN [f \in Debs |-> "absent"] ELSE remote
    /\ Finish("Err")
    /\ UNCHANGED <<disk, uri_file, order, i, archives, mismatches>>
    /\ UNCHANGED notInstall

\* install.rs:101-105  after a failed verification: exec("cd $HOME")?, then
\* return Err(err)
CdHome ==
    /\ pc = "cdhome"
    /\ \E ok \in BOOLEAN :
          /\ Outcome(ok)
          /\ Emit("exec", "cd $HOME", NoArg, ok)
    /\ Finish("Err")
    /\ UNCHANGED <<disk, uri_file, order, i, remote, archives, mismatches>>
    /\ UNCHANGED notInstall

\* a faulty Install: the loop walks the packages map, not install_order
Install_MapOrder ==
    /\ pc = "install"
    /\ i <= Len(Unwrap(uri_file).install_order)
    /\ i <= Len(order) + 1
    /\ \E ok \in BOOLEAN :
          /\ Outcome(ok)
          /\ Emit("sudo", "dpkg -i", IF i <= Len(order) THEN order[i] ELSE NoArg, ok)
    /\ i' = i + 1
    /\ Goto("install")
    /\ UNCHANGED <<disk, uri_file, order, remote, archives, mismatches>>
    /\ UNCHANGED notInstall

\* a faulty Install: the Err of a "dpkg -i" is returned with `?`
Install_FailFast ==
    /\ pc = "install"
    /\ i <= Len(Unwrap(uri_file).install_order)
    /\ \E ok \in BOOLEAN :
          /\ Outcome(ok)
          /\ Emit("sudo", "dpkg -i", Unwrap(uri_file).install_order[i], ok)
          /\ IF ok THEN Goto("install") ELSE Finish("Err")
    /\ i' = i + 1
    /\ UNCHANGED <<disk, uri_file, order, remote, archives, mismatches>>
    /\ UNCHANGED notInstall

\* install.rs:293-320  install_archive: one sudo "dpkg -i" per element of
\* install_order; an Err is reported and the loop goes on
Install ==
    /\ pc = "install"
    /\ i <= Len(Unwrap(uri_file).install_order)
    /\ \E ok \in BOOLEAN :
          /\ Outcome(ok)
          /\ Emit("sudo", "dpkg -i", Unwrap(uri_file).install_order[i], ok)
    /\ i' = i + 1
    /\ Goto("install")
    /\ UNCHANGED <<disk, uri_file, order, remote, archives, mismatches>>
    /\ UNCHANGED notInstall

\* a faulty Reconfigure: the Err of the reconfigure command is returned
Reconfigure_Fatal ==
    /\ pc = "install"
    /\ i > Len(Unwrap(uri_file).install_order)
    /\ \E ok \in BOOLEAN :
          /\ Outcome(ok)
          /\ Emit("sudo", "dpkg --configure -a", NoArg, ok)
          /\ IF ok THEN Goto("move") ELSE Finish("Err")
    /\ UNCHANGED <<disk, uri_file, order, i, remote, archives, mismatches>>
    /\ UNCHANGED notInstall

\* a faulty Reconfigure: the reconfigure command sits inside the loop
Reconfigure_InLoop ==
    /\ pc = "install"
    /\ \E ok \in BOOLEAN :
          /\ Outcome(ok)
          /\ Emit("sudo", "dpkg --configure -a", NoArg, ok)
    /\ IF i > Len(Unwrap(uri_file).install_order) THEN Goto("move") ELSE Goto("install")
    /\ UNCHANGED <<disk, uri_file, order, i, remote, archives, mismatches>>
    /\ UNCHANGED notInstall

\* install.rs:322-339  sudo "dpkg --configure -a"; an Err is reported;
\* install_archive returns Ok(())
Reconfigure ==
    /\ pc = "install"
    /\ i > Len(Unwrap(uri_file).install_order)
    /\ \E ok \in BOOLEAN :
          /\ Outcome(ok)
          /\ Emit("sudo", "dpkg --configure -a", NoArg, ok)
    /\ Goto("move")
    /\ UNCHANGED <<disk, uri_file, order, i, remote, archives, mismatches>>
    /\ UNCHANGED notInstall

\* a faulty MoveToArchives: the temporary directory is removed without the
\* move
MoveToArchives_Skipped ==
    /\ pc = "move"
    /\ Goto("rm")
    /\ UNCHANGED <<disk, uri_file, order, i, log, remote, archives, mismatches, faults>>
    /\ UNCHANGED notInstall

\* install.rs:118-124  sudo("mv /tmp/apt-remote/<name>/* /var/cache/apt/archives")?
MoveToArchives ==
    /\ pc = "move"
    /\ \E ok \in BOOLEAN :
          /\ Outcome(ok)
          /\ Emit("sudo", "mv", NoArg, ok)
          /\ IF ok
             THEN /\ Goto("rm")
                  /\ archives' = archives \cup {f \in Debs : remote[f] # "absent"}
                  /\ remote' = [f \in Debs |-> "absent"]
             ELSE Finish("Err") /\ UNCHANGED <<remote, archives>>
    /\ UNCHANGED <<disk, uri_file, order, i, mismatches>>
    /\ UNCHANGED notInstall

\* install.rs:125-127  exec("rm -rf /tmp/apt-remote/<name>")?; Ok(())
RemoveTmp ==
    /\ pc = "rm"
    /\ \E ok \in BOOLEAN :
          /\ Outcome(ok)
          /\ Emit("exec", "rm -rf", NoArg, ok)
          /\ IF ok THEN Finish("Ok") /\ remote' = [f \in Debs |-> "absent"]
                   ELSE Finish("Err") /\ UNCHANGED remote
    /\ UNCHANGED <<disk, uri_file, order, i, archives, mismatches>>
    /\ UNCHANGED notInstall

\* src/src/commands/install.rs: run
InstallNext ==
    \/ Connect
    \/ Whoami
    \/ Prompt
    \/ Load
    \/ ModeCheck
    \/ Mkdir
    \/ Cd
    \/ Upload
    \/ UploadEnd
    \/ Verify
    \/ VerifyEnd
    \/ CdHome
    \/ Install
    \/ Reconfigure
    \/ MoveToArchives
    \/ RemoveTmp

Init == InstallInit

Next == InstallNext

Spec == Init /\ [][Next]_vars


\* the runs whose install_order names the packages 1.deb, 2.deb, .. in turn:
\* how many steps a run takes depends on the length of install_order, on the
\* keys of packages and on the failures, not on the names install_order holds
TerminatesInit ==
    /\ InstallInit
    /\ disk.state = "toml" =>
          \A j \in DOMAIN disk.doc["install_order"] :
              disk.doc["install_order"][j] = Fname(j, "deb")

\* install.rs:49-128  run, every call of which returns: a step that can be
\* taken is taken
SpecTerminates == TerminatesInit /\ [][Next]_vars /\ WF_vars(Next)

\* ------------------------------------------------------------------------
\* UriFile::save followed by UriFile::load (src/src/uri.rs)
\* ------------------------------------------------------------------------

\* the state save and load do not touch
notUri == <<order, i, log, remote, archives, mismatches, files, task, http, prev, sshVars, setVars,
            shown, command>>

UriSamples == {HttpUri, HttpsUri, FtpUri, UpperUri, FileUri, NoSchemeUri, NoHostUri}

SizeSamples == {1, U64Max}

ChecksumSamples ==
    {None} \cup {Some(Checksum(k, Digest(ChecksumTool(k), "c1"))) : k \in ChecksumKind}

\* entries: every URI, and every size with every checksum
EntrySamples ==
    {PackageEntry(u, 1, None) : u \in UriSamples} \cup
    {PackageEntry(HttpUri, sz, c) : sz \in SizeSamples, c \in ChecksumSamples}

\* the values of UriFile that are saved: every mode, total_size absent and
\* present, a descending install_order of each length, and every map of up to MaxPkgs
\* entries
SavedManifests ==
    {UriFile(m, "amd64", t, io, pk) :
        m \in RemoteMode,
        t \in {None} \cup {Some(sz) : sz \in SizeSamples},
        io \in {[j \in 1..n |-> Fname(n + 1 - j, "deb")] : n \in 0..MaxOrder},
        pk \in UNION {[{Fname(st, "deb") : st \in 1..n} -> EntrySamples] : n \in 0..MaxPkgs}}

UriInit ==
    /\ disk = NoFile
    /\ uri_file \in {Some(u) : u \in SavedManifests}
    /\ order = <<>>
    /\ pc = "save"
    /\ i = 1
    /\ log = <<>>
    /\ remote = [f \in Debs |-> "absent"]
    /\ archives = {}
    /\ mismatches = <<>>
    /\ faults = 0
    /\ result = "running"
    /\ loaded = NotLoaded
    /\ files = NoFiles
    /\ task = EmptyTable
    /\ http = EmptyTable
    /\ prev = "none"
    /\ shown = {}
    /\ command = "none"
    /\ NoSsh
    /\ NoSet

\* uri.rs:125-134  UriFile::save: toml::to_string(self)?, then fs::write(..)?;
\* a failed write leaves the file as it was or cut short
Save ==
    /\ pc = "save"
    /\ LET toml_str == to_string(Unwrap(uri_file))
       IN  IF ~toml_str.ok
           THEN Finish("Err") /\ UNCHANGED <<disk, faults>>
           ELSE \E ok \in BOOLEAN :
                  /\ Outcome(ok)
                  /\ IF ok
                     THEN disk' = TomlFile(toml_str.doc) /\ Goto("load")
                     ELSE disk' \in {disk, Garbage} /\ Finish("Err")
    /\ UNCHANGED <<uri_file, loaded>>
    /\ UNCHANGED notUri

\* uri.rs:100-116  UriFile::load of the path just written
LoadBack ==
    /\ pc = "load"
    /\ loaded' = load(disk, FileOrder(disk))
    /\ Finish("Ok")
    /\ UNCHANGED <<disk, uri_file, faults>>
    /\ UNCHANGED notUri

UriNext ==
    \/ Save
    \/ LoadBack

SpecUri == UriInit /\ [][UriNext]_vars

\* ------------------------------------------------------------------------
\* get command (src/src/commands/get.rs)
\* ------------------------------------------------------------------------

\* the state the get command does not touch
notGet == <<order, i, log, remote, archives, mismatches, loaded, sshVars, setVars, command>>

\* the package keys of the manifests get is run against: a .deb, two
\* compressed indexes, a name without extension that is also the name the
\* first index decompresses to, and a compressed index next to the name with
\* an extension it decompresses to
GetNames == {<<1, "deb">>, <<1, "xz">>, <<2, "xz">>, <<1>>, <<1, "b", "xz">>, <<1, "b">>}

\* Path::extension: the part after the last dot, if there is one
extension(path) == IF Len(path) >= 2 THEN Some(path[Len(path)]) ELSE None

\* Path::with_extension(""): the name without its extension
with_extension_empty(path) ==
    IF Len(path) >= 2 THEN SubSeq(path, 1, Len(path) - 1) ELSE path

\* the paths of the download directory the command may touch
GetPaths == GetNames \cup {with_extension_empty(f) : f \in GetNames}

GetManifests ==
    {UriFile(m, "amd64", IF m = "Update" THEN None ELSE Some(1), <<>>, pk) :
        m \in RemoteMode,
        pk \in UNION {[ks -> {PackageEntry(HttpUri, 1, None)}] :
                        ks \in {x \in SUBSET GetNames : Cardinality(x) <= MaxPkgs}}}

GetDisks == {NoFile} \cup {TomlFile(to_string(u).doc) : u \in GetManifests}

GetInit ==
    /\ disk \in GetDisks
    /\ uri_file = None
    /\ order = <<>>
    /\ pc = "load"
    /\ i = 1
    /\ log = <<>>
    /\ remote = [f \in Debs |-> "absent"]
    /\ archives = {}
    /\ mismatches = <<>>
    /\ faults = 0
    /\ result = "running"
    /\ loaded = NotLoaded
    /\ files = [p \in GetPaths |-> "absent"]
    /\ task = EmptyTable
    /\ http = EmptyTable
    /\ prev = "none"
    /\ shown = {}
    /\ command = "get"
    /\ NoSsh
    /\ NoSet

\* get.rs:31-32  UriFile::load(..)?
GetLoad ==
    /\ pc = "load"
    /\ LET r == load(disk, FileOrder(disk))
       IN  IF r.ok THEN uri_file' = r.val /\ Goto("mkdir")
                   ELSE UNCHANGED uri_file /\ Finish("Err")
    /\ UNCHANGED <<disk, faults, files, task, http, prev, shown>>
    /\ UNCHANGED notGet

\* get.rs:34-46  fs::create_dir_all(&download_dir)?, then the client; the
\* parallel batch starts with one item per entry of the map
GetMkdir ==
    /\ pc = "mkdir"
    /\ \E ok \in BOOLEAN :
          /\ Outcome(ok)
          /\ IF ok
             THEN /\ Goto("batch")
                  /\ task' = [k \in DOMAIN Unwrap(uri_file).packages |-> "ready"]
                  /\ http' = [k \in DOMAIN Unwrap(uri_file).packages |-> "none"]
             ELSE Finish("Err") /\ UNCHANGED <<task, http>>
    /\ UNCHANGED <<disk, uri_file, files, prev, shown>>
    /\ UNCHANGED notGet

\* a worker moves the item of package k to position l
Step(k, l) == task' = [task EXCEPT ![k] = l]

\* get.rs:66-70  dest.exists(): an existing destination is "already
\* downloaded" and the item returns Ok(())
Check(k) ==
    /\ pc = "batch"
    /\ task[k] = "ready"
    /\ Step(k, IF files[k] # "absent" THEN "present" ELSE "request")
    /\ UNCHANGED <<disk, uri_file, pc, faults, result, files, http, prev, shown>>
    /\ UNCHANGED notGet

\* get.rs:87-108  the failure message a response leaves on the terminal
\* (spinner.finish_with_message): a transport error is reported in every
\* mode, a non-success status only when the manifest is in Install mode
Message(mode, response) ==
    IF response = "transport_err" THEN {"Failed to download"}
    ELSE IF response = "bad_status" /\ mode = "Install" THEN {"Bad response"}
    ELSE {}

\* Request, had a failed request been returned with `?`
Request_FailFast(k) ==
    /\ pc = "batch"
    /\ task[k] = "request"
    /\ \E response \in {"transport_err", "bad_status", "success"} :
          /\ Outcome(response = "success")
          /\ http' = [http EXCEPT ![k] = response]
          /\ shown' = shown \cup {<<k, m>> : m \in Message(Unwrap(uri_file).mode, response)}
          /\ Step(k, IF response = "success" THEN "create" ELSE "err")
    /\ UNCHANGED <<disk, uri_file, pc, result, files, prev>>
    /\ UNCHANGED notGet

\* get.rs:85-109  client.get(uri).send() and error_for_status(): a transport
\* error and a non-success status are reported (or not) and the item returns
\* Ok(())
Request(k) ==
    /\ pc = "batch"
    /\ task[k] = "request"
    /\ \E response \in {"transport_err", "bad_status", "success"} :
          /\ Outcome(response = "success")
          /\ http' = [http EXCEPT ![k] = response]
          /\ shown' = shown \cup {<<k, m>> : m \in Message(Unwrap(uri_file).mode, response)}
          /\ Step(k, IF response = "success" THEN "create" ELSE "nofetch")
    /\ UNCHANGED <<disk, uri_file, pc, result, files, prev>>
    /\ UNCHANGED notGet

\* get.rs:111-112  dest.extension().unwrap() panics on a name without
\* extension; File::create(&dest)? makes or truncates the destination
Create(k) ==
    /\ pc = "batch"
    /\ task[k] = "create"
    /\ IF extension(k) = None
       THEN Step(k, "panic") /\ UNCHANGED <<files, faults>>
       ELSE \E ok \in BOOLEAN :
              /\ Outcome(ok)
              /\ IF ok THEN files' = [files EXCEPT ![k] = "partial"] /\ Step(k, "write")
                       ELSE UNCHANGED files /\ Step(k, "err")
    /\ UNCHANGED <<disk, uri_file, pc, result, http, prev, shown>>
    /\ UNCHANGED notGet

\* get.rs:113-115  file.write_all(&response?.bytes()?)?: the body is written;
\* an Update item with extension xz goes on to decompress
Write(k) ==
    /\ pc = "batch"
    /\ task[k] = "write"
    /\ \E ok \in BOOLEAN :
          /\ Outcome(ok)
          /\ IF ok
             THEN /\ files' = [files EXCEPT ![k] = "full"]
                  /\ Step(k, IF Unwrap(uri_file).mode = "Update" /\ extension(k) = Some("xz")
                             THEN "decompress" ELSE "ok")
             ELSE UNCHANGED files /\ Step(k, "err")
    /\ UNCHANGED <<disk, uri_file, pc, result, http, prev, shown>>
    /\ UNCHANGED notGet

\* get.rs:119-129  the .xz file is decoded into the path without extension;
\* a failure leaves that path as it was (open, create) or cut short (copy)
Decompress(k) ==
    /\ pc = "batch"
    /\ task[k] = "decompress"
    /\ \E ok \in BOOLEAN :
          /\ Outcome(ok)
          /\ LET output_path == with_extension_empty(k)
             IN  IF ok
                 THEN files' = [files EXCEPT ![output_path] = "plain"] /\ Step(k, "remove")
                 ELSE /\ \E left \in {files[output_path], "partial"} :
                            files' = [files EXCEPT ![output_path] = left]
                      /\ Step(k, "err")
    /\ UNCHANGED <<disk, uri_file, pc, result, http, prev, shown>>
    /\ UNCHANGED notGet

\* get.rs:131-137  std::fs::remove_file(&original_path)?; Ok(())
Remove(k) ==
    /\ pc = "batch"
    /\ task[k] = "remove"
    /\ \E ok \in BOOLEAN :
          /\ Outcome(ok)
          /\ IF ok THEN files' = [files EXCEPT ![k] = "absent"] /\ Step(k, "ok")
                   ELSE UNCHANGED files /\ Step(k, "err")
    /\ UNCHANGED <<disk, uri_file, pc, result, http, prev, shown>>
    /\ UNCHANGED notGet

\* get.rs:62-65  try_for_each: once an item has returned Err (or panicked),
\* items not yet started may be dropped
Skip(k) ==
    /\ pc = "batch"
    /\ task[k] = "ready"
    /\ \E j \in DOMAIN task : task[j] \in {"err", "panic"}
    /\ Step(k, "skipped")
    /\ UNCHANGED <<disk, uri_file, pc, faults, result, files, http, prev, shown>>
    /\ UNCHANGED notGet

\* positions of an item that is over
Over == {"present", "nofetch", "ok", "err", "panic", "skipped"}

\* get.rs:138-147  the batch is over: a panic of an item is resumed in the
\* caller, an Err is returned with `?`, otherwise Ok(())
BatchEnd ==
    /\ pc = "batch"
    /\ \A k \in DOMAIN task : task[k] \in Over
    /\ Finish(IF \E k \in DOMAIN task : task[k] = "panic" THEN "Panic"
              ELSE IF \E k \in DOMAIN task : task[k] = "err" THEN "Err"
              ELSE "Ok")
    /\ UNCHANGED <<disk, uri_file, faults, files, task, http, prev, shown>>
    /\ UNCHANGED notGet

\* the run that ended downloaded every artifact of the manifest
Clean ==
    /\ result = "Ok"
    /\ faults = 0
    /\ \A k \in DOMAIN task : task[k] = "ok"

\* main.rs:88  the command is invoked again on the same image and cache
GetAgain ==
    /\ pc = "done"
    /\ Loaded
    /\ prev' = IF Clean THEN "clean" ELSE "other"
    /\ pc' = "load"
    /\ result' = "running"
    /\ faults' = 0
    /\ uri_file' = None
    /\ task' = EmptyTable
    /\ http' = EmptyTable
    /\ shown' = {}
    /\ UNCHANGED <<disk, files>>
    /\ UNCHANGED notGet

GetNext ==
    \/ GetLoad
    \/ GetMkdir
    \/ \E k \in DOMAIN task : Check(k)
    \/ \E k \in DOMAIN task : Request(k)
    \/ \E k \in DOMAIN task : Create(k)
    \/ \E k \in DOMAIN task : Write(k)
    \/ \E k \in DOMAIN task : Decompress(k)
    \/ \E k \in DOMAIN task : Remove(k)
    \/ \E k \in DOMAIN task : Skip(k)
    \/ BatchEnd
    \/ GetAgain

SpecGet == GetInit /\ [][GetNext]_vars

\* ------------------------------------------------------------------------
\* ssh session, exec and sudo (src/src/ssh.rs)
\* ------------------------------------------------------------------------

\* calls of exec and sudo made on one session
MaxCalls == 2

\* the state the ssh primitives do not touch
notSsh == <<disk, uri_file, order, i, log, remote, archives, mismatches, loaded,
            files, task, http, prev, setVars, shown, command>>

\* target.split('@'): "user@host", and a target without '@'
Targets == {<<"user", "host">>, <<"host">>}

\* the commands the callers pass to exec and sudo
Cmds == {<<"whoami">>, <<"dpkg -i">>}

Passwords == {"pw"}

\* exit status of the remote command
ExitStatus == {0, 1}

\* what the remote command prints: it depends on the command and on how it
\* ended
RemoteOutput(cmd, status) == cmd \o <<status>>

\* format!("sudo -S -p '' {cmd}")
SudoCmd(cmd) == <<"sudo -S -p ''">> \o cmd

\* format!("{}\n", password)
PasswordLine(password) == <<password, "\n">>

SshInit ==
    /\ disk = NoFile
    /\ uri_file = None
    /\ order = <<>>
    /\ pc = "parse"
    /\ i = 1
    /\ log = <<>>
    /\ remote = [f \in Debs |-> "absent"]
    /\ archives = {}
    /\ mismatches = <<>>
    /\ faults = 0
    /\ result = "running"
    /\ loaded = NotLoaded
    /\ files = NoFiles
    /\ task = EmptyTable
    /\ http = EmptyTable
    /\ prev = "none"
    /\ shown = {}
    /\ command = "none"
    /\ session = NoSession
    /\ wire = <<>>
    /\ call \in {[NoCall EXCEPT !.fn = "create_ssh_session", !.cmd = t] : t \in Targets}
    /\ NoSet

\* one operation is attempted on channel ch of the session (0: the session
\* itself) by the primitive in progress
Sent(ch, op, data, ok) ==
    wire' = Append(wire, [by |-> call.fn, ch |-> ch, op |-> op, data |-> data, ok |-> ok])

\* create_ssh_session returns Ok(session)
ReturnSession ==
    /\ pc' = "idle"
    /\ result' = "Ok"

\* ssh.rs:43-46  user and host of the target; "Missing host" without '@'
SshParse ==
    /\ pc = "parse"
    /\ IF Len(call.cmd) < 2 THEN Finish("Err") ELSE Goto("tcp")
    /\ UNCHANGED <<faults, session, wire, call>>
    /\ UNCHANGED notSsh

\* ssh.rs:49-52  TcpStream::connect(..)?, Session::new()?
SshTcp ==
    /\ pc = "tcp"
    /\ \E ok \in BOOLEAN :
          /\ Outcome(ok)
          /\ IF ok THEN Goto("handshake") /\ session' = [session EXCEPT !.state = "new"]
                   ELSE Finish("Err") /\ UNCHANGED session
    /\ UNCHANGED <<wire, call>>
    /\ UNCHANGED notSsh

\* ssh.rs:55  session.handshake()?; what the server then takes the client
\* for is the server's choice
Handshake ==
    /\ pc = "handshake"
    /\ \E ok \in BOOLEAN :
          /\ Outcome(ok)
          /\ Sent(0, "handshake", <<>>, ok)
          /\ IF ok
             THEN /\ Goto("fast")
                  /\ \E a \in BOOLEAN : session' = [session EXCEPT !.authenticated = a]
             ELSE Finish("Err") /\ UNCHANGED session
    /\ UNCHANGED call
    /\ UNCHANGED notSsh

\* ssh.rs:58-60  if session.authenticated() { return Ok(session) }
FastPath ==
    /\ pc = "fast"
    /\ IF session.authenticated THEN ReturnSession ELSE Goto("agent")
    /\ UNCHANGED <<faults, session, wire, call>>
    /\ UNCHANGED notSsh

\* ssh.rs:63  session.userauth_agent(user).ok(): the result is dropped
Agent ==
    /\ pc = "agent"
    /\ \E ok \in BOOLEAN :
          /\ Sent(0, "userauth_agent", <<call.cmd[1]>>, ok)
          /\ \E a \in (IF ok THEN BOOLEAN ELSE {FALSE}) :
                session' = [session EXCEPT !.authenticated = a]
    /\ Goto("agentcheck")
    /\ UNCHANGED <<faults, call>>
    /\ UNCHANGED notSsh

\* a faulty AgentCheck: the password is asked for whatever the agent did
AgentCheck_AlwaysPrompt ==
    /\ pc = "agentcheck"
    /\ Goto("prompt")
    /\ UNCHANGED <<faults, session, wire, call>>
    /\ UNCHANGED notSsh

\* ssh.rs:64-66  if session.authenticated() { return Ok(session) }
AgentCheck ==
    /\ pc = "agentcheck"
    /\ IF session.authenticated THEN ReturnSession ELSE Goto("prompt")
    /\ UNCHANGED <<faults, session, wire, call>>
    /\ UNCHANGED notSsh

\* ssh.rs:69  rpassword::prompt_password(..)?
PromptPassword ==
    /\ pc = "prompt"
    /\ \E ok \in BOOLEAN :
          /\ Outcome(ok)
          /\ Sent(0, "prompt_password", <<>>, ok)
          /\ IF ok
             THEN Goto("password") /\ \E pw \in Passwords : call' = [call EXCEPT !.password = pw]
             ELSE Finish("Err") /\ UNCHANGED call
    /\ UNCHANGED session
    /\ UNCHANGED notSsh

\* ssh.rs:70  session.userauth_password(user, &password)?
Password ==
    /\ pc = "password"
    /\ \E ok \in BOOLEAN :
          /\ Sent(0, "userauth_password", <<call.cmd[1], call.password>>, ok)
          /\ IF ok
             THEN /\ Goto("final")
                  /\ \E a \in BOOLEAN : session' = [session EXCEPT !.authenticated = a]
             ELSE Finish("Err") /\ UNCHANGED session
    /\ UNCHANGED <<faults, call>>
    /\ UNCHANGED notSsh

\* a faulty FinalCheck: a password the server took is taken for a login
FinalCheck_Skipped ==
    /\ pc = "final"
    /\ ReturnSession
    /\ UNCHANGED <<faults, session, wire, call>>
    /\ UNCHANGED notSsh

\* ssh.rs:73-77  Ok(session) if session.authenticated(), Err otherwise
FinalCheck ==
    /\ pc = "final"
    /\ IF session.authenticated THEN ReturnSession ELSE Finish("Err")
    /\ UNCHANGED <<faults, session, wire, call>>
    /\ UNCHANGED notSsh

\* a caller invokes exec or sudo on the session it was given
Invoke(fn, cmd, password, first) ==
    /\ pc = "idle"
    /\ session.calls < MaxCalls
    /\ session' = [session EXCEPT !.calls = @ + 1]
    /\ call' = [NoCall EXCEPT !.fn = fn, !.cmd = cmd, !.password = password,
                              !.ch = session.calls + 1, !.ret = "running"]
    /\ Goto(first)
    /\ UNCHANGED <<faults, wire>>

\* the primitive in progress returns
Return(ret) ==
    /\ pc' = "idle"
    /\ result' = result
    /\ call' = [call EXCEPT !.ret = ret]

\* a step of a primitive, followed by `?`: on Err the primitive returns it
Try(at, op, data, next) ==
    /\ pc = at
    /\ \E ok \in BOOLEAN :
          /\ Outcome(ok)
          /\ Sent(call.ch, op, data, ok)
          /\ IF ok THEN Goto(next) /\ UNCHANGED call ELSE Return("Err")
    /\ UNCHANGED session

\* channel.exec(..)?: the remote side runs the command of the channel, which
\* ends with some exit status and has printed its output
Started(at, data, next) ==
    /\ pc = at
    /\ \E ok \in BOOLEAN :
          /\ Outcome(ok)
          /\ Sent(call.ch, "exec", data, ok)
          /\ IF ok
             THEN /\ Goto(next)
                  /\ \E st \in ExitStatus :
                        call' = [call EXCEPT !.status = st, !.output = RemoteOutput(call.cmd, st)]
             ELSE Return("Err")
    /\ UNCHANGED session

\* channel.read_to_string(&mut output)?
Read(at, next) ==
    /\ pc = at
    /\ \E ok \in BOOLEAN :
          /\ Outcome(ok)
          /\ Sent(call.ch, "read_to_string", <<>>, ok)
          /\ IF ok THEN Goto(next) /\ call' = [call EXCEPT !.val = call.output]
                   ELSE Return("Err")
    /\ UNCHANGED session

\* channel.wait_close()?; Ok(output)
Close(at) ==
    /\ pc = at
    /\ \E ok \in BOOLEAN :
          /\ Outcome(ok)
          /\ Sent(call.ch, "wait_close", <<>>, ok)
          /\ Return(IF ok THEN "Ok" ELSE "Err")
    /\ UNCHANGED session

\* ssh.rs:118  fn exec(&self, cmd)
ExecCall ==
    /\ \E cmd \in Cmds : Invoke("exec", cmd, "", "x_open")
    /\ UNCHANGED notSsh

\* ssh.rs:120  self.channel_session()?
ExecOpen ==
    /\ Try("x_open", "channel_session", <<>>, "x_exec")
    /\ UNCHANGED notSsh

\* ssh.rs:122  channel.exec(cmd)?
ExecStart ==
    /\ Started("x_exec", call.cmd, "x_read")
    /\ UNCHANGED notSsh

\* ssh.rs:124-125  the output is captured
ExecRead ==
    /\ Read("x_read", "x_close")
    /\ UNCHANGED notSsh

\* a faulty ExecClose: a non-zero exit status of the command is an error
ExecClose_CheckStatus ==
    /\ pc = "x_close"
    /\ \E ok \in BOOLEAN :
          /\ Outcome(ok)
          /\ Sent(call.ch, "wait_close", <<>>, ok)
          /\ Return(IF ok /\ call.status = 0 THEN "Ok" ELSE "Err")
    /\ UNCHANGED session
    /\ UNCHANGED notSsh

\* ssh.rs:127-128  channel.wait_close()?; Ok(output)
ExecClose ==
    /\ Close("x_close")
    /\ UNCHANGED notSsh

\* ssh.rs:131  fn sudo(&self, cmd, password)
SudoCall ==
    /\ \E cmd \in Cmds : \E pw \in Passwords : Invoke("sudo", cmd, pw, "s_open")
    /\ UNCHANGED notSsh

\* ssh.rs:133  self.channel_session()?
SudoOpen ==
    /\ Try("s_open", "channel_session", <<>>, "s_pty")
    /\ UNCHANGED notSsh

\* ssh.rs:134  channel.request_pty("xterm", None, None)?
SudoPty ==
    /\ Try("s_pty", "request_pty", <<>>, "s_exec")
    /\ UNCHANGED notSsh

\* ssh.rs:137-138  channel.exec(&sudo_cmd)?
SudoStart ==
    /\ Started("s_exec", SudoCmd(call.cmd), "s_write")
    /\ UNCHANGED notSsh

\* a faulty SudoWrite: the password is sent on the first sudo channel only
SudoWrite_Cached ==
    /\ IF \E j \in DOMAIN wire : wire[j].op = "write"
       THEN /\ pc = "s_write"
            /\ Goto("s_flush")
            /\ UNCHANGED <<faults, session, wire, call>>
       ELSE Try("s_write", "write", PasswordLine(call.password), "s_flush")
    /\ UNCHANGED notSsh

\* ssh.rs:141  write!(channel, "{}\n", password)?
SudoWrite ==
    /\ Try("s_write", "write", PasswordLine(call.password), "s_flush")
    /\ UNCHANGED notSsh

\* ssh.rs:142  channel.flush()?
SudoFlush ==
    /\ Try("s_flush", "flush", <<>>, "s_read")
    /\ UNCHANGED notSsh

\* ssh.rs:145-146  channel.read_to_string(&mut output)?
SudoRead ==
    /\ Read("s_read", "s_close")
    /\ UNCHANGED notSsh

\* ssh.rs:147-148  channel.wait_close()?; Ok(output)
SudoClose ==
    /\ Close("s_close")
    /\ UNCHANGED notSsh

SshNext ==
    \/ SshParse
    \/ SshTcp
    \/ Handshake
    \/ FastPath
    \/ Agent
    \/ AgentCheck
    \/ PromptPassword
    \/ Password
    \/ FinalCheck
    \/ ExecCall
    \/ ExecOpen
    \/ ExecStart
    \/ ExecRead
    \/ ExecClose
    \/ SudoCall
    \/ SudoOpen
    \/ SudoPty
    \/ SudoStart
    \/ SudoWrite
    \/ SudoFlush
    \/ SudoRead
    \/ SudoClose

SpecSsh == SshInit /\ [][SshNext]_vars

\* ------------------------------------------------------------------------
\* set command (src/src/commands/set.rs)
\* ------------------------------------------------------------------------

\* the state the set command does not touch
notSet == <<order, remote, archives, mismatches, loaded, files, http, prev, sshVars, shown, command>>

\* a second URI, with another file name
HttpUriB == <<"h","t","t","p",":","/","/","h","/","b">>

\* apt-get prints the URI between single quotes
Quoted(uri) == <<"'">> \o uri \o <<"'">>

\* .replace("\'", "")
Unquote(field) ==
    LET NotQuote(c) == c # "'"
    IN  SelectSeq(field, NotQuote)

\* position of the last "/" of s, 0 if there is none
RECURSIVE LastSlash(_, _)
LastSlash(s, j) ==
    IF j = 0 THEN 0
    ELSE IF s[j] = "/" THEN j
    ELSE LastSlash(s, j - 1)

\* url.path_segments()?.last(): what follows the last "/" of the URL
LastSegment(uri) == SubSeq(uri, LastSlash(uri, Len(uri)) + 1, Len(uri))

\* position of the first "//" of s, 0 if there is none
RECURSIVE DoubleSlash(_, _)
DoubleSlash(s, j) ==
    IF j + 1 > Len(s) THEN 0
    ELSE IF s[j] = "/" /\ s[j + 1] = "/" THEN j
    ELSE DoubleSlash(s, j + 1)

\* uri.split("//").nth(1): what lies between the first "//" and the next
SecondPart(uri) ==
    LET a == DoubleSlash(uri, 1)
        rest == SubSeq(uri, a + 2, Len(uri))
        b == DoubleSlash(rest, 1)
    IN  IF a = 0 THEN None
        ELSE Some(IF b = 0 THEN rest ELSE SubSeq(rest, 1, b - 1))

\* .replace("/", "_")
Underscored(s) == [j \in DOMAIN s |-> IF s[j] = "/" THEN "_" ELSE s[j]]

Digits == <<"0", "1", "2", "3", "4", "5", "6", "7", "8", "9">>

DigitVal(c) == (CHOOSE d \in DOMAIN Digits : Digits[d] = c) - 1

RECURSIVE Decimal(_)
Decimal(s) == IF s = <<>> THEN 0 ELSE 10 * Decimal(SubSeq(s, 1, Len(s) - 1)) + DigitVal(s[Len(s)])

\* str::parse::<u64>: a non-empty run of digits whose value fits a u64
ParseU64(s) ==
    IF s = <<>> \/ \E j \in DOMAIN s : \A d \in DOMAIN Digits : Digits[d] # s[j]
    THEN [ok |-> FALSE, val |-> 0]
    ELSE IF Decimal(s) > U64Max THEN [ok |-> FALSE, val |-> 0]
    ELSE [ok |-> TRUE, val |-> Decimal(s)]

\* str::to_lowercase, on the names of checksum kinds
ToLowercase(str) ==
    CASE str = "SHA256" -> "sha256"
      [] str = "MD5Sum" -> "md5sum"
      [] str = "SHA1"   -> "sha1"
      [] OTHER          -> str

\* uri.rs:32-40  ChecksumKind::new
ChecksumKind_new(kind_str) ==
    CASE kind_str = "sha256sum" -> Some("SHA256")
      [] kind_str = "md5sum"    -> Some("MD5")
      [] OTHER                  -> None

\* a line of the output is the sequence of its fields (line.split(" ")): the
\* quoted URI, the destination name, the size, the checksum; the checksum
\* field is the sequence of its parts (split(":")), <<"">> when it is empty
Line(uri, size, checksum) == <<Quoted(uri), <<"d">>, size, checksum>>

\* what the closure of the parallel map gives for a line
Parsed(state, filename, entry) == [state |-> state, fname |-> filename, entry |-> entry]

Pending == Parsed("pending", <<>>, None)

\* set.rs:129-173  the closure: an unwrap on a missing value panics, a `?`
\* returns the Err of the line
parse_line(line) ==
    LET uri == Unquote(line[1])
        filename == LastSegment(uri)
        Panic == Parsed("panic", <<>>, None)
        Err == Parsed("Err", filename, None)
    IN  IF ~UrlParse(uri).ok THEN Panic
        ELSE IF Len(line) < 3 THEN Panic
        ELSE IF ~ParseU64(line[3]).ok THEN Err
        ELSE IF Len(line) < 4 THEN Panic
        ELSE LET size == ParseU64(line[3]).val
                 checksum_maybe == line[4]
             IN  IF checksum_maybe = <<"">>
                 THEN Parsed("Ok", filename, Some(PackageEntry(uri, size, None)))
                 ELSE LET kind_str == ToLowercase(checksum_maybe[1])
                          kind == ChecksumKind_new(kind_str)
                      IN  IF kind = None THEN Err
                          ELSE IF Len(checksum_maybe) < 2 THEN Panic
                          ELSE Parsed("Ok", filename,
                                      Some(PackageEntry(uri, size,
                                             Some(Checksum(Unwrap(kind), checksum_maybe[2])))))

\* the lines the remote apt-get may print
LineSamples ==
    { Line(HttpUri,  <<"1">>, <<"MD5Sum", "c1">>),
      Line(HttpUriB, <<"2">>, <<"MD5Sum", "c2">>),
      Line(HttpUri,  <<"1">>, <<"SHA256", "c1">>),
      Line(HttpUriB, <<"1">>, <<"">>),
      Line(HttpUri,  <<"x">>, <<"MD5Sum", "c1">>),
      Line(HttpUri,  <<"1">>, <<"SHA1", "c1">>),
      <<Quoted(HttpUri), <<"d">>, <<"1">>>>,
      Line(NoSchemeUri, <<"1">>, <<"MD5Sum", "c1">>) }

\* the manifest an earlier run of set has left for the image name
PrevManifest ==
    UriFile("Install", "amd64", Some(1), <<LastSegment(HttpUri)>>,
            [f \in {LastSegment(HttpUri)} |-> PackageEntry(HttpUri, 1, None)])

SetInit ==
    /\ disk \in {NoFile, TomlFile(to_string(PrevManifest).doc)}
    /\ uri_file = None
    /\ order = <<>>
    /\ pc = "set_mkdir"
    /\ i = 1
    /\ log = <<>>
    /\ remote = [f \in Debs |-> "absent"]
    /\ archives = {}
    /\ mismatches = <<>>
    /\ faults = 0
    /\ result = "running"
    /\ loaded = NotLoaded
    /\ files = NoFiles
    /\ task = <<>>
    /\ http = EmptyTable
    /\ prev = "none"
    /\ shown = {}
    /\ command = "set"
    /\ NoSsh
    /\ print_uris = <<>>
    /\ pkg_data = <<>>
    /\ built \in {[NoBuilt EXCEPT !.mode = m] : m \in RemoteMode}

\* set.rs:81-85  fs::create_dir_all(&cache_dir)?
SetMkdir ==
    /\ pc = "set_mkdir"
    /\ \E ok \in BOOLEAN :
          /\ Outcome(ok)
          /\ IF ok THEN Goto("set_connect") ELSE Finish("Err")
    /\ UNCHANGED <<disk, uri_file, i, log, task, setVars>>
    /\ UNCHANGED notSet

\* set.rs:88  create_ssh_session(target)?
SetConnect ==
    /\ Fatal("set_connect", "ssh", "connect", "set_arch")
    /\ UNCHANGED <<disk, uri_file, i, task, setVars>>
    /\ UNCHANGED notSet

\* set.rs:91-94  session.exec("dpkg --print-architecture")?.trim()
SetArch ==
    /\ pc = "set_arch"
    /\ \E ok \in BOOLEAN :
          /\ Outcome(ok)
          /\ Emit("exec", "dpkg --print-architecture", NoArg, ok)
          /\ IF ok THEN Goto("set_uris") /\ built' = [built EXCEPT !.arch = "amd64"]
                   ELSE Finish("Err") /\ UNCHANGED built
    /\ UNCHANGED <<disk, uri_file, i, task, print_uris, pkg_data>>
    /\ UNCHANGED notSet

\* set.rs:107-121  session.exec("apt-get <mode> --print-uris ...")?: the
\* remote apt-get prints its lines
SetPrintUris ==
    /\ pc = "set_uris"
    /\ \E ok \in BOOLEAN :
          /\ Outcome(ok)
          /\ Emit("exec", "apt-get --print-uris", NoArg, ok)
          /\ IF ok
             THEN /\ Goto("set_parse")
                  /\ print_uris' \in SeqsUpTo(LineSamples, MaxPkgs)
                  /\ pkg_data' = [j \in DOMAIN print_uris' |-> Pending]
                  /\ task' = [j \in DOMAIN print_uris' |-> "ready"]
             ELSE Finish("Err") /\ UNCHANGED <<print_uris, pkg_data, task>>
    /\ UNCHANGED <<disk, uri_file, i, built>>
    /\ UNCHANGED notSet

\* the first slot of pkg_data that holds no result yet
FirstPending == CHOOSE j \in DOMAIN pkg_data :
                   /\ pkg_data[j] = Pending
                   /\ \A k \in 1..(j - 1) : pkg_data[k] # Pending

\* a faulty ParseLine: the results are collected in the order in which the
\* workers finish
ParseLine_Unordered(j) ==
    /\ pc = "set_parse"
    /\ task[j] = "ready"
    /\ task' = [task EXCEPT ![j] = "done"]
    /\ LET r == parse_line(print_uris[j])
       IN  IF r.state = "panic"
           THEN Finish("Panic") /\ UNCHANGED pkg_data
           ELSE Goto("set_parse") /\ pkg_data' = [pkg_data EXCEPT ![FirstPending] = r]
    /\ UNCHANGED <<disk, uri_file, i, log, faults, print_uris, built>>
    /\ UNCHANGED notSet

\* set.rs:127-174  output.par_lines().map(..).collect(): a worker parses
\* line j, at any time; the result takes the place of the line in the Vec;
\* a panic of the closure is resumed in run
ParseLine(j) ==
    /\ pc = "set_parse"
    /\ task[j] = "ready"
    /\ task' = [task EXCEPT ![j] = "done"]
    /\ LET r == parse_line(print_uris[j])
       IN  IF r.state = "panic"
           THEN Finish("Panic") /\ UNCHANGED pkg_data
           ELSE Goto("set_parse") /\ pkg_data' = [pkg_data EXCEPT ![j] = r]
    /\ UNCHANGED <<disk, uri_file, i, log, faults, print_uris, built>>
    /\ UNCHANGED notSet

\* set.rs:174-182  every line is parsed: the Vec is complete
Collected ==
    /\ pc = "set_parse"
    /\ \A j \in DOMAIN task : task[j] = "done"
    /\ Goto("set_store")
    /\ i' = 1
    /\ UNCHANGED <<disk, uri_file, log, faults, task, setVars>>
    /\ UNCHANGED notSet

\* a faulty StoreLine: a line that did not parse is passed over
StoreLine_SkipFailed ==
    /\ pc = "set_store"
    /\ i <= Len(pkg_data)
    /\ LET pkg_info == pkg_data[i]
           pkg_entry == Unwrap(pkg_info.entry)
           key == IF built.mode = "Update" THEN Underscored(Unwrap(SecondPart(pkg_entry.uri)))
                  ELSE pkg_info.fname
       IN  IF pkg_info.state = "Err"
           THEN Goto("set_store") /\ UNCHANGED built
           ELSE /\ Goto("set_store")
                /\ built' = [built EXCEPT
                      !.packages = [f \in DOMAIN @ \cup {key} |-> IF f = key THEN pkg_entry ELSE @[f]],
                      !.install_order = IF built.mode = "Update" THEN @ ELSE Append(@, key),
                      !.total_size = IF built.mode = "Update" THEN @ ELSE (@ + pkg_entry.size) % (U64Max + 1)]
    /\ i' = i + 1
    /\ UNCHANGED <<disk, uri_file, log, faults, task, print_uris, pkg_data>>
    /\ UNCHANGED notSet

\* set.rs:185-202  one turn of the loop over pkg_data: `pkg_info?` returns
\* the Err of a line; Update keys the entry by its URI, Install and Upgrade
\* by the file name, which they also push to install_order, adding the size
\* to total_size (an overflow panics in a debug build and wraps in a release
\* build)
StoreLine ==
    /\ pc = "set_store"
    /\ i <= Len(pkg_data)
    /\ LET pkg_info == pkg_data[i]
           pkg_entry == Unwrap(pkg_info.entry)
       IN  IF pkg_info.state = "Err"
           THEN Finish("Err") /\ UNCHANGED built
           ELSE IF built.mode = "Update"
           THEN IF SecondPart(pkg_entry.uri) = None
                THEN Finish("Panic") /\ UNCHANGED built
                ELSE LET key == Underscored(Unwrap(SecondPart(pkg_entry.uri)))
                     IN  /\ Goto("set_store")
                         /\ built' = [built EXCEPT !.packages =
                               [f \in DOMAIN @ \cup {key} |-> IF f = key THEN pkg_entry ELSE @[f]]]
           ELSE LET fname == pkg_info.fname
                    overflow == built.total_size + pkg_entry.size > U64Max
                IN  \/ /\ overflow
                       /\ Finish("Panic")
                       /\ UNCHANGED built
                    \/ /\ Goto("set_store")
                       /\ built' = [built EXCEPT
                             !.total_size = (@ + pkg_entry.size) % (U64Max + 1),
                             !.install_order = Append(@, fname),
                             !.packages =
                                [f \in DOMAIN @ \cup {fname} |-> IF f = fname THEN pkg_entry ELSE @[f]]]
    /\ i' = i + 1
    /\ UNCHANGED <<disk, uri_file, log, faults, task, print_uris, pkg_data>>
    /\ UNCHANGED notSet

\* set.rs:204-214  the UriFile is made: total_size only if not Update
Assemble ==
    /\ pc = "set_store"
    /\ i > Len(pkg_data)
    /\ uri_file' = Some(UriFile(built.mode, built.arch,
                                IF built.mode = "Update" THEN None ELSE Some(built.total_size),
                                built.install_order, built.packages))
    /\ Goto("set_save")
    /\ UNCHANGED <<disk, i, log, faults, task, setVars>>
    /\ UNCHANGED notSet

\* set.rs:222-226  uri_file.save(&uri_path)?; Ok(())
SetSave ==
    /\ pc = "set_save"
    /\ LET toml_str == to_string(Unwrap(uri_file))
       IN  IF ~toml_str.ok
           THEN Finish("Err") /\ UNCHANGED <<disk, faults>>
           ELSE \E ok \in BOOLEAN :
                  /\ Outcome(ok)
                  /\ IF ok
                     THEN disk' = TomlFile(toml_str.doc) /\ Finish("Ok")
                     ELSE disk' \in {disk, Garbage} /\ Finish("Err")
    /\ UNCHANGED <<uri_file, i, log, task, setVars>>
    /\ UNCHANGED notSet

SetNext ==
    \/ SetMkdir
    \/ SetConnect
    \/ SetArch
    \/ SetPrintUris
    \/ \E j \in DOMAIN task : ParseLine(j)
    \/ Collected
    \/ StoreLine
    \/ Assemble
    \/ SetSave

SpecSet == SetInit /\ [][SetNext]_vars

\* ------------------------------------------------------------------------
\* update command (src/src/commands/update.rs)
\* ------------------------------------------------------------------------

\* the state the update command does not touch
notUpdate == <<disk, uri_file, mismatches, loaded, task, http, prev, sshVars, setVars, shown, command>>

\* the cached index files of an image: <cache>/apt-remote/<name>/sources/*
Lists == {Fname(st, "list") : st \in 1..MaxPkgs}

\* the sources directory: missing, or holding some index files
NoSources == [exists |-> FALSE, entries |-> {}]

Sources(entries) == [exists |-> TRUE, entries |-> entries]

\* the remote commands of the update command
MkTmp == "mkdir -p /tmp/apt-remote/<name>"

MoveAside == "mv /var/lib/apt/lists /var/lib/apt/lists.old"

MkLists == "mkdir -p /var/lib/apt/lists/partial"

TouchLock == "touch /var/lib/apt/lists/lock"

MoveIntoPlace == "mv /tmp/apt-remote/<name>/* /var/lib/apt/lists"

Gencaches == "apt-cache gencaches"

UpdateInit ==
    /\ disk \in {NoFile, TomlFile(to_string(PrevManifest).doc)}
    /\ uri_file = None
    /\ order = <<>>
    /\ pc = "upd_connect"
    /\ i = 1
    /\ log = <<>>
    /\ remote = [f \in Lists |-> "absent"]
    /\ archives = {}
    /\ mismatches = <<>>
    /\ faults = 0
    /\ result = "running"
    /\ loaded = NotLoaded
    /\ files \in {NoSources} \cup {Sources(e) : e \in SUBSET Lists}
    /\ task = EmptyTable
    /\ http = EmptyTable
    /\ prev = "none"
    /\ shown = {}
    /\ command = "update"
    /\ NoSsh
    /\ NoSet

\* update.rs:40  create_ssh_session(target)?
UpdateConnect ==
    /\ Fatal("upd_connect", "ssh", "connect", "upd_prompt")
    /\ UNCHANGED <<order, i, remote, archives, files>>
    /\ UNCHANGED notUpdate

\* update.rs:43-45  rpassword::prompt_password(..).ok().unwrap()
UpdatePrompt ==
    /\ pc = "upd_prompt"
    /\ \E ok \in BOOLEAN :
          /\ Outcome(ok)
          /\ IF ok THEN Goto("upd_sources") ELSE Finish("Panic")
    /\ UNCHANGED <<order, i, log, remote, archives, files>>
    /\ UNCHANGED notUpdate

\* a faulty UpdateSources: a missing sources directory counts as an empty one
UpdateSources_NoCheck ==
    /\ pc = "upd_sources"
    /\ IF ~files.exists
       THEN order' = <<>> /\ Goto("upd_mkdir") /\ UNCHANGED faults
       ELSE \E ok \in BOOLEAN :
              /\ Outcome(ok)
              /\ IF ok THEN order' \in Perms(files.entries) /\ Goto("upd_mkdir")
                       ELSE UNCHANGED order /\ Finish("Err")
    /\ UNCHANGED <<i, log, remote, archives, files>>
    /\ UNCHANGED notUpdate

\* update.rs:58-74  a missing sources directory is an Err; read_dir()? lists
\* it, in the order of the file system; srcs holds the names
UpdateSources ==
    /\ pc = "upd_sources"
    /\ IF ~files.exists
       THEN Finish("Err") /\ UNCHANGED <<order, faults>>
       ELSE \E ok \in BOOLEAN :
              /\ Outcome(ok)
              /\ IF ok THEN order' \in Perms(files.entries) /\ Goto("upd_mkdir")
                       ELSE UNCHANGED order /\ Finish("Err")
    /\ UNCHANGED <<i, log, remote, archives, files>>
    /\ UNCHANGED notUpdate

\* update.rs:77  session.exec("mkdir -p /tmp/apt-remote/<name>")?
UpdateMkdir ==
    /\ Fatal("upd_mkdir", "exec", MkTmp, "upd_aside")
    /\ UNCHANGED <<order, i, remote, archives, files>>
    /\ UNCHANGED notUpdate

\* update.rs:78  session.sudo("mv /var/lib/apt/lists /var/lib/apt/lists.old")?
UpdateMoveAside ==
    /\ Fatal("upd_aside", "sudo", MoveAside, "upd_mklists")
    /\ UNCHANGED <<order, i, remote, archives, files>>
    /\ UNCHANGED notUpdate

\* update.rs:79  session.sudo("mkdir -p /var/lib/apt/lists/partial")?
UpdateMkLists ==
    /\ Fatal("upd_mklists", "sudo", MkLists, "upd_lock")
    /\ UNCHANGED <<order, i, remote, archives, files>>
    /\ UNCHANGED notUpdate

\* update.rs:80  session.sudo("touch /var/lib/apt/lists/lock")?
UpdateTouchLock ==
    /\ Fatal("upd_lock", "sudo", TouchLock, "upd_upload")
    /\ UNCHANGED <<order, i, remote, archives, files>>
    /\ UNCHANGED notUpdate

\* update.rs:98-132  one turn of the loop over srcs: a file that is gone from
\* the sources directory since it was listed is passed over; scp_upload is
\* attempted for the others; an Err is reported and the loop goes on
UpdateUpload ==
    /\ pc = "upd_upload"
    /\ i <= Len(order)
    /\ LET fname == order[i]
       IN  \E gone \in BOOLEAN :
             IF gone
             THEN /\ files' = [files EXCEPT !.entries = @ \ {fname}]
                  /\ UNCHANGED <<log, remote, faults>>
             ELSE /\ UNCHANGED files
                  /\ \E ok \in BOOLEAN :
                        /\ Outcome(ok)
                        /\ Emit("scp", "scp_upload", fname, ok)
                        /\ \E c \in (IF ok THEN Contents ELSE RemoteContents) :
                              remote' = [remote EXCEPT ![fname] = c]
    /\ i' = i + 1
    /\ Goto("upd_upload")
    /\ UNCHANGED <<order, archives>>
    /\ UNCHANGED notUpdate

\* a faulty UpdateMoveIntoPlace: the move does not wait for the end of the
\* loop over srcs
UpdateMoveIntoPlace_Early ==
    /\ pc = "upd_upload"
    /\ \E ok \in BOOLEAN :
          /\ Outcome(ok)
          /\ Emit("sudo", MoveIntoPlace, NoArg, ok)
          /\ IF ok
             THEN /\ Goto(IF i > Len(order) THEN "upd_gencaches" ELSE "upd_upload")
                  /\ archives' = archives \cup {f \in Lists : remote[f] # "absent"}
                  /\ remote' = [f \in Lists |-> "absent"]
             ELSE Finish("Err") /\ UNCHANGED <<remote, archives>>
    /\ UNCHANGED <<order, i, files>>
    /\ UNCHANGED notUpdate

\* update.rs:134-136  after the loop:
\* session.sudo("mv /tmp/apt-remote/<name>/* /var/lib/apt/lists")?
UpdateMoveIntoPlace ==
    /\ pc = "upd_upload"
    /\ i > Len(order)
    /\ \E ok \in BOOLEAN :
          /\ Outcome(ok)
          /\ Emit("sudo", MoveIntoPlace, NoArg, ok)
          /\ IF ok
             THEN /\ Goto("upd_gencaches")
                  /\ archives' = archives \cup {f \in Lists : remote[f] # "absent"}
                  /\ remote' = [f \in Lists |-> "absent"]
             ELSE Finish("Err") /\ UNCHANGED <<remote, archives>>
    /\ UNCHANGED <<order, i, files>>
    /\ UNCHANGED notUpdate

\* update.rs:137-144  session.sudo("apt-cache gencaches")?; Ok(())
UpdateGencaches ==
    /\ pc = "upd_gencaches"
    /\ \E ok \in BOOLEAN :
          /\ Outcome(ok)
          /\ Emit("sudo", Gencaches, NoArg, ok)
          /\ IF ok THEN Finish("Ok") ELSE Finish("Err")
    /\ UNCHANGED <<order, i, remote, archives, files>>
    /\ UNCHANGED notUpdate

\* src/src/commands/update.rs: run
UpdateNext ==
    \/ UpdateConnect
    \/ UpdatePrompt
    \/ UpdateSources
    \/ UpdateMkdir
    \/ UpdateMoveAside
    \/ UpdateMkLists
    \/ UpdateTouchLock
    \/ UpdateUpload
    \/ UpdateMoveIntoPlace
    \/ UpdateGencaches

SpecUpdate == UpdateInit /\ [][UpdateNext]_vars

\* ------------------------------------------------------------------------
\* scp_upload, upload_file and upload_recursive (src/src/ssh.rs)
\* ------------------------------------------------------------------------

\* entries of one local directory
MaxEntries == 2

\* the state an upload does not touch
notUpload == <<disk, uri_file, order, i, archives, mismatches, loaded, http, prev,
               sshVars, setVars, shown, command>>

\* what read_dir may yield: a regular file, a directory, anything else
EntryKinds == {"file", "dir", "other"}

\* the local path given to scp_upload: a file, or a directory whose entries
\* come in the order of read_dir; each subdirectory holds sub files.  A path
\* below the root is the sequence of the positions of its components
LocalTrees ==
    {[root |-> "file", entries |-> <<>>, sub |-> 0]} \cup
    {[root |-> "dir", entries |-> e, sub |-> n] :
        e \in SeqsUpTo(EntryKinds, MaxEntries), n \in 0..MaxEntries}

UploadPaths ==
    {<<>>} \cup {<<j>> : j \in 1..MaxEntries} \cup {<<j, k>> : j, k \in 1..MaxEntries}

\* fs::read_dir(local): the entries of the directory at path
EntriesOf(tree, path) ==
    IF path = <<>> THEN tree.entries ELSE [k \in 1..tree.sub |-> "file"]

\* the directories of the local tree
LocalDirs(tree) ==
    IF tree.root # "dir" THEN {}
    ELSE {<<>>} \cup {<<j>> : j \in {x \in DOMAIN tree.entries : tree.entries[x] = "dir"}}

\* the remote destination: nothing there, or the directories of an earlier
\* upload of the same tree
UploadInit ==
    /\ disk = NoFile
    /\ uri_file = None
    /\ order = <<>>
    /\ pc = "up_sftp"
    /\ i = 1
    /\ log = <<>>
    /\ files \in LocalTrees
    /\ remote \in {[q \in UploadPaths |-> "absent"],
                   [q \in UploadPaths |-> IF q \in LocalDirs(files) THEN "dir" ELSE "absent"]}
    /\ archives = {}
    /\ mismatches = <<>>
    /\ faults = 0
    /\ result = "running"
    /\ loaded = NotLoaded
    /\ task = <<>>
    /\ http = EmptyTable
    /\ prev = "none"
    /\ shown = {}
    /\ command = "none"
    /\ NoSsh
    /\ NoSet

\* the frame of the innermost call of upload_recursive
Top == task[Len(task)]

\* the loop of the innermost call moves to its next entry
Advance == [task EXCEPT ![Len(task)].idx = @ + 1]

\* ssh.rs:165-181  upload_file: open, metadata, exec("touch ..")?, scp_send,
\* io::copy, each with `?`; a failure leaves the remote file as it was or
\* empty or cut short
UploadFileAt(path, ok) ==
    /\ Emit("scp", "upload_file", path, ok)
    /\ \E c \in (IF ok THEN {"full"} ELSE {remote[path], "partial"}) :
          remote' = [remote EXCEPT ![path] = c]

\* ssh.rs:153-163  scp_upload: self.sftp()?, then a directory is uploaded
\* recursively and anything else as one file
ScpUpload ==
    /\ pc = "up_sftp"
    /\ \E ok \in BOOLEAN :
          /\ Outcome(ok)
          /\ Emit("sftp", "sftp", <<>>, ok)
          /\ IF ~ok THEN Finish("Err") /\ UNCHANGED task
             ELSE IF files.root = "dir"
             THEN Goto("up_mkdir") /\ task' = <<[path |-> <<>>, idx |-> 1]>>
             ELSE Goto("up_file") /\ UNCHANGED task
    /\ UNCHANGED <<files, remote>>
    /\ UNCHANGED notUpload

\* ssh.rs:161  self.upload_file(local_path, remote_path)
UploadFile ==
    /\ pc = "up_file"
    /\ \E ok \in BOOLEAN :
          /\ Outcome(ok)
          /\ UploadFileAt(<<>>, ok)
          /\ Finish(IF ok THEN "Ok" ELSE "Err")
    /\ UNCHANGED <<files, task>>
    /\ UNCHANGED notUpload

\* ssh.rs:185  sftp.mkdir(remote, 0o755).ok(): the directory is made unless
\* it exists or the request fails; the result is dropped
RecursiveMkdir ==
    /\ pc = "up_mkdir"
    /\ IF remote[Top.path] # "absent"
       THEN /\ Emit("sftp", "mkdir", Top.path, FALSE)
            /\ UNCHANGED <<remote, faults>>
       ELSE \E ok \in BOOLEAN :
              /\ Outcome(ok)
              /\ Emit("sftp", "mkdir", Top.path, ok)
              /\ remote' = IF ok THEN [remote EXCEPT ![Top.path] = "dir"] ELSE remote
    /\ Goto("up_readdir")
    /\ UNCHANGED <<files, task>>
    /\ UNCHANGED notUpload

\* ssh.rs:188  fs::read_dir(local).context("reading local dir")?
RecursiveReadDir ==
    /\ pc = "up_readdir"
    /\ \E ok \in BOOLEAN :
          /\ Outcome(ok)
          /\ IF ok THEN Goto("up_entry") /\ UNCHANGED task
                   ELSE Finish("Err") /\ task' = <<>>
    /\ UNCHANGED <<files, remote, log>>
    /\ UNCHANGED notUpload

\* a faulty RecursiveEntry: a file that fails to upload is passed over
RecursiveEntry_Continue ==
    /\ pc = "up_entry"
    /\ Top.idx <= Len(EntriesOf(files, Top.path))
    /\ LET kind == EntriesOf(files, Top.path)[Top.idx]
           entry == Append(Top.path, Top.idx)
       IN  \E ok \in BOOLEAN :
             /\ Outcome(ok)
             /\ IF kind = "file"
                THEN /\ UploadFileAt(entry, ok)
                     /\ Goto("up_entry") /\ task' = Advance
                ELSE /\ UNCHANGED <<log, remote>>
                     /\ IF ~ok THEN Finish("Err") /\ task' = <<>>
                        ELSE IF kind = "dir"
                        THEN /\ Goto("up_mkdir")
                             /\ task' = Append(Advance, [path |-> entry, idx |-> 1])
                        ELSE Goto("up_entry") /\ task' = Advance
    /\ UNCHANGED files
    /\ UNCHANGED notUpload

\* ssh.rs:188-200  one turn of the loop over the entries: `entry?` and
\* `file_type()?` return an Err; a directory is uploaded by a nested call and
\* a file by upload_file, both with `?`, so that an Err is returned through
\* every enclosing call; an entry that is neither is passed over
RecursiveEntry ==
    /\ pc = "up_entry"
    /\ Top.idx <= Len(EntriesOf(files, Top.path))
    /\ LET kind == EntriesOf(files, Top.path)[Top.idx]
           entry == Append(Top.path, Top.idx)
       IN  \E ok \in BOOLEAN :
             /\ Outcome(ok)
             /\ IF kind = "file"
                THEN /\ UploadFileAt(entry, ok)
                     /\ IF ok THEN Goto("up_entry") /\ task' = Advance
                              ELSE Finish("Err") /\ task' = <<>>
                ELSE /\ UNCHANGED <<log, remote>>
                     /\ IF ~ok THEN Finish("Err") /\ task' = <<>>
                        ELSE IF kind = "dir"
                        THEN /\ Goto("up_mkdir")
                             /\ task' = Append(Advance, [path |-> entry, idx |-> 1])
                        ELSE Goto("up_entry") /\ task' = Advance
    /\ UNCHANGED files
    /\ UNCHANGED notUpload

\* ssh.rs:201-202  the entries are through: Ok(()), to the enclosing call
\* or to scp_upload
RecursiveReturn ==
    /\ pc = "up_entry"
    /\ Top.idx > Len(EntriesOf(files, Top.path))
    /\ task' = SubSeq(task, 1, Len(task) - 1)
    /\ IF Len(task) = 1 THEN Finish("Ok") ELSE Goto("up_entry")
    /\ UNCHANGED <<files, remote, log, faults>>
    /\ UNCHANGED notUpload

UploadNext ==
    \/ ScpUpload
    \/ UploadFile
    \/ RecursiveMkdir
    \/ RecursiveReadDir
    \/ RecursiveEntry
    \/ RecursiveReturn

SpecUpload == UploadInit /\ [][UploadNext]_vars

\* ------------------------------------------------------------------------
\* package indexes of the repositories (src/src/get.rs)
\* ------------------------------------------------------------------------

\* the state the index download does not touch
notIndex == <<disk, uri_file, i, log, remote, archives, mismatches, loaded, prev,
              sshVars, setVars, shown, command>>

\* a repository URL written with a trailing slash
HttpUriSlash == HttpUri \o <<"/">>

\* the lines of the source-list files: the sequence of their
\* whitespace-separated fields
SourceLines ==
    {<<"deb", HttpUri, "stable">>, <<"deb", HttpUriB, "stable">>, <<"deb", HttpUriSlash>>,
     <<"deb-src", HttpUri, "stable">>, <<"deb", NoSchemeUri>>, <<"deb">>}

\* get.rs:79-90  the URLs of the lines that start with "deb ", have a second
\* field and whose second field parses, as a set
RECURSIVE extract_source_urls(_)
extract_source_urls(lines) ==
    IF lines = <<>> THEN {}
    ELSE LET parts == Head(lines)
             here == IF parts[1] = "deb" /\ Len(parts) > 1 /\ UrlParse(parts[2]).ok
                     THEN {parts[2]} ELSE {}
         IN  here \cup extract_source_urls(Tail(lines))

\* get.rs:102-106  the URL of the index of a repository: a "/" is added to a
\* path that does not end with one, then "Packages.gz"
PkgUrl(url) ==
    (IF url[Len(url)] # "/" THEN Append(url, "/") ELSE url) \o <<"Packages.gz">>

\* get.rs:108-112  lists_dir.join(file_name), file_name the last segment of
\* the path of the index URL
DestPath(url) == LastSegment(PkgUrl(url))

\* the files the lists directory may come to hold
ListsPaths == {DestPath(u) : u \in {HttpUri, HttpUriB, HttpUriSlash}}

\* what a file of the lists directory holds: nothing, or the index of a
\* repository, whole or cut short
NoIndex == [state |-> "absent", of |-> <<>>]

Index(state, url) == [state |-> state, of |-> url]

IndexInit ==
    /\ disk = NoFile
    /\ uri_file = None
    /\ order \in SeqsUpTo(SourceLines, MaxPkgs)
    /\ pc = "idx_extract"
    /\ i = 1
    /\ log = <<>>
    /\ remote = [f \in Debs |-> "absent"]
    /\ archives = {}
    /\ mismatches = <<>>
    /\ faults = 0
    /\ result = "running"
    /\ loaded = NotLoaded
    /\ files \in [ListsPaths -> {NoIndex, Index("full", HttpUri)}]
    /\ task = EmptyTable
    /\ http = EmptyTable
    /\ prev = "none"
    /\ shown = {}
    /\ command = "none"
    /\ NoSsh
    /\ NoSet

\* get.rs:70-99  extract_source_urls(&sources_dir)?, then
\* fs::create_dir_all(&lists_dir)?; the parallel batch starts with one item
\* per URL of the set
IndexExtract ==
    /\ pc = "idx_extract"
    /\ \E ok \in BOOLEAN :
          /\ Outcome(ok)
          /\ IF ok
             THEN /\ Goto("idx_batch")
                  /\ task' = [u \in extract_source_urls(order) |-> "ready"]
                  /\ http' = [u \in extract_source_urls(order) |-> "none"]
             ELSE Finish("Err") /\ UNCHANGED <<task, http>>
    /\ UNCHANGED <<order, files>>
    /\ UNCHANGED notIndex

\* get.rs:114-116  dest_path.exists(): "already downloaded", Ok(())
IndexCheck(u) ==
    /\ pc = "idx_batch"
    /\ task[u] = "ready"
    /\ Step(u, IF files[DestPath(u)].state # "absent" THEN "present" ELSE "request")
    /\ UNCHANGED <<order, pc, faults, result, files, http>>
    /\ UNCHANGED notIndex

\* get.rs:118-123  client.get(..).send()?.error_for_status()?
IndexRequest(u) ==
    /\ pc = "idx_batch"
    /\ task[u] = "request"
    /\ \E ok \in BOOLEAN :
          /\ Outcome(ok)
          /\ http' = [http EXCEPT ![u] = IF ok THEN "success" ELSE "failed"]
          /\ Step(u, IF ok THEN "create" ELSE "err")
    /\ UNCHANGED <<order, pc, result, files>>
    /\ UNCHANGED notIndex

\* get.rs:125-126  fs::File::create(&dest_path)?: the destination is made or
\* emptied
IndexCreate(u) ==
    /\ pc = "idx_batch"
    /\ task[u] = "create"
    /\ \E ok \in BOOLEAN :
          /\ Outcome(ok)
          /\ IF ok THEN /\ files' = [files EXCEPT ![DestPath(u)] = Index("partial", u)]
                        /\ Step(u, "write")
                   ELSE UNCHANGED files /\ Step(u, "err")
    /\ UNCHANGED <<order, pc, result, http>>
    /\ UNCHANGED notIndex

\* get.rs:127-130  resp.bytes()?, file.write_all(&content)?, Ok(())
IndexWrite(u) ==
    /\ pc = "idx_batch"
    /\ task[u] = "write"
    /\ \E ok \in BOOLEAN :
          /\ Outcome(ok)
          /\ IF ok THEN /\ files' = [files EXCEPT ![DestPath(u)] = Index("full", u)]
                        /\ Step(u, "ok")
                   ELSE UNCHANGED files /\ Step(u, "err")
    /\ UNCHANGED <<order, pc, result, http>>
    /\ UNCHANGED notIndex

\* get.rs:101  try_for_each: once an item has returned Err, items not yet
\* started may be dropped
IndexSkip(u) ==
    /\ pc = "idx_batch"
    /\ task[u] = "ready"
    /\ \E v \in DOMAIN task : task[v] = "err"
    /\ Step(u, "skipped")
    /\ UNCHANGED <<order, pc, faults, result, files, http>>
    /\ UNCHANGED notIndex

\* get.rs:131-133  the batch is over: its Err is returned with `?`
IndexEnd ==
    /\ pc = "idx_batch"
    /\ \A u \in DOMAIN task : task[u] \in {"present", "ok", "err", "skipped"}
    /\ Finish(IF \E u \in DOMAIN task : task[u] = "err" THEN "Err" ELSE "Ok")
    /\ UNCHANGED <<order, faults, files, task, http>>
    /\ UNCHANGED notIndex

IndexNext ==
    \/ IndexExtract
    \/ \E u \in DOMAIN task : IndexCheck(u)
    \/ \E u \in DOMAIN task : IndexRequest(u)
    \/ \E u \in DOMAIN task : IndexCreate(u)
    \/ \E u \in DOMAIN task : IndexWrite(u)
    \/ \E u \in DOMAIN task : IndexSkip(u)
    \/ IndexEnd

SpecIndex == IndexInit /\ [][IndexNext]_vars

\* ------------------------------------------------------------------------
\* the commands of the program on one cache (src/src/main.rs)
\* ------------------------------------------------------------------------

\* main.rs:77-97  main runs the subcommand it was invoked with
LifecycleInit == InstallInit \/ GetInit \/ UpdateInit \/ SetInit

LifecycleNext ==
    \/ command = "install" /\ InstallNext
    \/ command = "get" /\ GetNext
    \/ command = "update" /\ UpdateNext
    \/ command = "set" /\ SetNext

SpecLifecycle == LifecycleInit /\ [][LifecycleNext]_vars

\* ------------------------------------------------------------------------
\* Properties of the install command
\* ------------------------------------------------------------------------

\* the arguments of the operations named cmd, in the order of their issue
RECURSIVE ArgsOf(_, _)
ArgsOf(l, cmd) ==
    IF l = <<>> THEN <<>>
    ELSE IF Head(l).cmd = cmd THEN <<Head(l).arg>> \o ArgsOf(Tail(l), cmd)
    ELSE ArgsOf(Tail(l), cmd)

Issued(cmd) == \E j \in DOMAIN log : log[j].cmd = cmd

LastCmd == IF log = <<>> THEN "" ELSE log[Len(log)].cmd

ChecksumTools == {ChecksumTool(k) : k \in ChecksumKind}

\* a checksum command of this run printed something else than the value the
\* manifest records for its package
MismatchSeen ==
    /\ Loaded
    /\ \E j \in DOMAIN log :
          /\ log[j].cmd \in ChecksumTools
          /\ log[j].ok
          /\ ActualChecksum(log[j].out) #
                Unwrap(Unwrap(uri_file).packages[log[j].arg].checksum).value

\* C1: checksum gate.  Once the output of a remote checksum command differs
\* from the value the manifest records, the run issues no "dpkg -i", no
\* "dpkg --configure -a" and no move into the archive directory, and it never
\* ends in success: it ends in an error (Err, or the abort of the process on
\* reaching an entry without checksum).
C1_ChecksumGate ==
    MismatchSeen =>
        /\ ~Issued("dpkg -i")
        /\ ~Issued("dpkg --configure -a")
        /\ ~Issued("mv")
        /\ archives = {}
        /\ pc = "done" => result \in {"Err", "Panic"}

\* a run that ended with Err after one of two packages failed the comparison
C1_Witness ==
    /\ pc = "done"
    /\ result = "Err"
    /\ MismatchSeen
    /\ Len(order) = 2
    /\ Len(mismatches) = 1

\* C2: order preservation.  The "dpkg -i" commands issued so far are always a
\* prefix of install_order, and once the install loop is over (the
\* reconfigure command was issued) they are exactly install_order: same
\* elements, same order, same multiplicity.
C2_OrderPreserved ==
    LET dpkg == ArgsOf(log, "dpkg -i")
    IN  IF ~Loaded THEN dpkg = <<>>
        ELSE /\ Len(dpkg) <= Len(Unwrap(uri_file).install_order)
             /\ dpkg = SubSeq(Unwrap(uri_file).install_order, 1, Len(dpkg))
             /\ Issued("dpkg --configure -a") => dpkg = Unwrap(uri_file).install_order

\* a finished run whose install_order is the reverse of the map's iteration
\* order
C2_Witness ==
    /\ pc = "done"
    /\ result = "Ok"
    /\ Len(order) = 2
    /\ Unwrap(uri_file).install_order = <<order[2], order[1]>>
    /\ ArgsOf(log, "dpkg -i") = <<order[2], order[1]>>


\* C3: an entry without checksum is skipped by the Verify step: no checksum
\* command is run for it, it is not counted as a mismatch, and the step goes
\* on to the next entry without failing.
C3_AbsentChecksumSkipped ==
    [][(/\ pc = "verify"
        /\ i <= Len(order)
        /\ Unwrap(uri_file).packages[order[i]].checksum = None)
       => (/\ pc' = "verify"
           /\ i' = i + 1
           /\ UNCHANGED <<log, mismatches, result>>)]_vars

\* remote steps whose Err is reported and passed over
BestEffortCmds == {"scp_upload", "dpkg -i", "dpkg --configure -a"}

\* remote steps whose Err ends the run
FatalCmds == {"mkdir -p", "cd", "mv", "rm -rf", "cd $HOME"} \cup ChecksumTools

\* the manifest in memory is an Install or Upgrade manifest
Applying == Loaded /\ Unwrap(uri_file).mode # "Update"

\* the step just taken attempted the remote operation cmd and it failed
FailedNow(cmds) ==
    /\ Len(log') = Len(log) + 1
    /\ log'[Len(log')].cmd \in cmds
    /\ ~log'[Len(log')].ok

ApplyCmds == BestEffortCmds \cup FatalCmds

\* C5: with an Update manifest in memory the install command has issued no
\* command of the apply pipeline (no mkdir, cd, upload, checksum, dpkg, mv or
\* rm), and the target holds none of its files.
C5_UpdateRefused ==
    (Loaded /\ Unwrap(uri_file).mode = "Update") =>
        /\ \A j \in DOMAIN log : log[j].cmd \notin ApplyCmds
        /\ \A f \in Debs : remote[f] = "absent"
        /\ archives = {}
        /\ pc \in {"mode", "done"}

\* the run against an Update manifest with packages has returned
C5_Witness ==
    /\ pc = "done"
    /\ Loaded
    /\ Unwrap(uri_file).mode = "Update"
    /\ Len(order) = 2
    /\ result = "Ok"

\* the Upload step of this run is over
PastUpload ==
    /\ Applying
    /\ \/ pc \in {"verify", "cdhome", "install", "move", "rm"}
       \/ pc = "done" /\ LastCmd \notin {"whoami", "mkdir -p", "cd"}

\* C10: best-effort upload.  No key is uploaded twice; when the Upload step
\* is over, scp_upload was attempted exactly once for every key of the
\* packages map, whatever the outcome of each attempt; and no run ends with
\* an error on an upload.
C10_BestEffortUpload ==
    LET up == ArgsOf(log, "scp_upload")
    IN  /\ \A j, k \in DOMAIN up : up[j] = up[k] => j = k
        /\ Loaded => \A j \in DOMAIN up : up[j] \in DOMAIN Unwrap(uri_file).packages
        /\ PastUpload =>
              \A f \in DOMAIN Unwrap(uri_file).packages : \E j \in DOMAIN up : up[j] = f
        /\ (pc = "done" /\ result = "Err") => LastCmd # "scp_upload"

\* the first of two uploads failed, the second was attempted, and the run
\* went on to the Verify step
C10_Witness ==
    /\ PastUpload
    /\ Len(order) = 2
    /\ \E j, k \in DOMAIN log :
          /\ j < k
          /\ log[j].cmd = "scp_upload" /\ ~log[j].ok
          /\ log[k].cmd = "scp_upload" /\ log[k].ok
    /\ \E j \in DOMAIN log : log[j].cmd \in ChecksumTools


\* the positions of the log at which cmd was attempted
At(cmd) == {j \in DOMAIN log : log[j].cmd = cmd}

\* the install loop of this run is over
PastInstallLoop ==
    /\ Applying
    /\ \/ pc \in {"move", "rm"}
       \/ pc = "done" /\ LastCmd \in {"dpkg -i", "dpkg --configure -a", "mv", "rm -rf"}

\* C11: best-effort install.  A failed "dpkg -i" never ends the run, and
\* once the install loop is over after a failed "dpkg -i", every element of
\* install_order after the failed one was attempted, each position once.
C11_BestEffortInstall ==
    /\ (pc = "done" => LastCmd # "dpkg -i")
    /\ PastInstallLoop =>
          \A j \in At("dpkg -i") : ~log[j].ok =>
             LET first == CHOOSE k \in At("dpkg -i") : \A l \in At("dpkg -i") : k <= l
                 pos == j - first + 1
             IN  /\ Cardinality(At("dpkg -i")) = Len(Unwrap(uri_file).install_order)
                 /\ \A q \in (pos + 1)..Len(Unwrap(uri_file).install_order) :
                       /\ log[first + q - 1].cmd = "dpkg -i"
                       /\ log[first + q - 1].arg = Unwrap(uri_file).install_order[q]

\* the first of two "dpkg -i" failed, the second was attempted, and the loop
\* is over
C11_Witness ==
    /\ PastInstallLoop
    /\ Len(Unwrap(uri_file).install_order) = 2
    /\ \E j \in At("dpkg -i") :
          /\ ~log[j].ok
          /\ log[j + 1].cmd = "dpkg -i"
          /\ log[j + 1].ok

\* C12: the reconfigure command is never issued twice; no "dpkg -i" follows
\* it and every element of install_order was attempted before it; and once
\* the install loop is over it has been issued.
C12_ReconfigureOnce ==
    /\ Cardinality(At("dpkg --configure -a")) <= 1
    /\ \A c \in At("dpkg --configure -a") :
          /\ \A j \in At("dpkg -i") : j < c
          /\ Cardinality(At("dpkg -i")) = Len(Unwrap(uri_file).install_order)
    /\ PastInstallLoop => Cardinality(At("dpkg --configure -a")) = 1

\* the reconfigure command was issued right after the second of two
\* "dpkg -i", one of which had failed
C12_Witness ==
    /\ LastCmd = "dpkg --configure -a"
    /\ Cardinality(At("dpkg -i")) = 2
    /\ \E j \in At("dpkg -i") : ~log[j].ok

\* C13: finalization.  When the command returns Ok for an Install/Upgrade
\* manifest, the log holds the reconfigure command, then the move into the
\* archive directory, then the removal of the temporary directory, each once.
C13_Finalization ==
    (Applying /\ pc = "done" /\ result = "Ok") =>
        /\ Cardinality(At("mv")) = 1
        /\ Cardinality(At("rm -rf")) = 1
        /\ \E c \in At("dpkg --configure -a") : \E m \in At("mv") : \E r \in At("rm -rf") :
              c < m /\ m < r

\* a run returned Ok after it had moved two uploaded files into the archive
\* directory
C13_Witness ==
    /\ Applying
    /\ pc = "done"
    /\ result = "Ok"
    /\ Cardinality(archives) = 2
    /\ LastCmd = "rm -rf"

\* ------------------------------------------------------------------------
\* Properties of the manifest file
\* ------------------------------------------------------------------------

\* the sample URIs that are URLs with scheme http, https or ftp
UrlsOfAllowedScheme == {HttpUri, HttpsUri, FtpUri, UpperUri}

\* the packages of a manifest whose URI is none of these
Offending(u) == {f \in DOMAIN u.packages : u.packages[f].uri \notin UrlsOfAllowedScheme}

\* load has returned for the file that save wrote
LoadedBack == pc = "done" /\ result = "Ok"

\* C6: load is all-or-nothing.  It returns a manifest only if every entry's
\* URI is a URL with scheme http, https or ftp; if some entry has another
\* scheme or a malformed URL it returns no manifest but an error naming one
\* such package.
C6_LoadAllOrNothing ==
    LoadedBack =>
        LET bad == Offending(Unwrap(uri_file))
        IN  /\ loaded.ok <=> bad = {}
            /\ loaded.ok => loaded.val # None
            /\ bad # {} =>
                  /\ loaded.val = None
                  /\ loaded.err = "uri"
                  /\ loaded.pkg # None
                  /\ Unwrap(loaded.pkg) \in bad

\* a file with one file:// entry next to a valid one was refused, the error
\* naming the file:// entry
C6_Witness ==
    /\ LoadedBack
    /\ ~loaded.ok
    /\ \E f, g \in DOMAIN Unwrap(uri_file).packages :
          /\ Unwrap(uri_file).packages[f].uri = FileUri
          /\ Unwrap(uri_file).packages[g].uri = HttpsUri
          /\ loaded.pkg = Some(f)

\* every integer of the manifest fits a signed 64-bit integer
InRange(u) ==
    /\ u.total_size # None => Unwrap(u.total_size) <= I64Max
    /\ \A f \in DOMAIN u.packages : u.packages[f].size <= I64Max

\* save and load have run on the manifest, no write error occurred
RoundTripRun == pc = "done" /\ faults = 0 /\ Offending(Unwrap(uri_file)) = {}

Requested == {k \in DOMAIN http : http[k] # "none"}

\* C8: in a run that follows one which downloaded every artifact of the
\* manifest, whatever the mode, no HTTP request is sent.
C8_IdempotentFetch == prev = "clean" => Requested = {}

\* the packages whose request met a transport error or a non-success status
RequestFailed == {k \in DOMAIN http : http[k] \in {"transport_err", "bad_status"}}

\* the only failures of this run are failed requests: every fault is one, and
\* no item failed after its response had arrived
OnlyRequestsFailed ==
    /\ faults = Cardinality(RequestFailed)
    /\ \A k \in DOMAIN task : http[k] = "success" => task[k] \notin {"err", "panic"}

\* C9: a transport error or a non-success status for one package makes its
\* item return Ok; when these are the only failures of a run, every package
\* whose destination does not exist has been requested and get returns Ok.
C9_FailedRequestDoesNotAbort ==
    /\ \A k \in RequestFailed : task[k] = "nofetch"
    /\ (pc = "done" /\ Loaded /\ OnlyRequestsFailed) =>
          /\ result = "Ok"
          /\ \A k \in DOMAIN task : k \in Requested \/ files[k] # "absent"

\* C9: a run returned Ok although the request of one package failed, and
\* another package was requested and downloaded
C9_Witness ==
    /\ pc = "done"
    /\ result = "Ok"
    /\ \E k \in RequestFailed : \E j \in DOMAIN task \ {k} :
          http[j] = "success" /\ task[j] = "ok"

\* a failure message was left on the terminal for package k
Reported(k) == \E e \in shown : e[1] = k

\* C28: when a download gets a non-success HTTP response, Install mode
\* leaves no per-package failure message and Update and Upgrade modes leave
\* one.
C28_FailureVisibilityByMode ==
    Loaded =>
        \A k \in DOMAIN http :
            http[k] = "bad_status" => (Reported(k) <=> Unwrap(uri_file).mode # "Install")

\* the packages whose item failed after its response had arrived: reading
\* the body, creating or writing the destination, decompressing, removing
FailedAfterResponse == {k \in DOMAIN task : http[k] = "success" /\ task[k] = "err"}

\* C29: a failure while reading one package's body, writing its file or
\* decompressing it is recovered per package: the other packages are still
\* fetched and the batch does not return an error.
C29_BodyFailureRecovered ==
    (pc = "done" /\ FailedAfterResponse # {}) =>
        /\ result = "Ok"
        /\ \A k \in DOMAIN task : task[k] # "skipped"

\* ------------------------------------------------------------------------
\* Properties of the ssh primitives (SpecSsh)
\* ------------------------------------------------------------------------

\* the positions of wire at which op was attempted
Ops(op) == {j \in DOMAIN wire : wire[j].op = op}

\* C14: create_ssh_session has returned Ok(session) only with the session
\* authenticated, whatever the agent and the password attempt gave.
C14_AuthenticatedOnReturn ==
    result = "Ok" => session.authenticated

\* a session was returned after the password attempt, the agent attempt
\* having been taken by the server without authenticating the session
C14_Witness ==
    /\ result = "Ok"
    /\ session.authenticated
    /\ \E j \in Ops("userauth_agent") : wire[j].ok
    /\ \E j \in Ops("userauth_password") : wire[j].ok

\* the step just taken attempted op on the session
Attempted(op) ==
    /\ Len(wire') = Len(wire) + 1
    /\ wire'[Len(wire')].op = op

\* C15: authentication order.  An authenticated session after the handshake
\* is returned at once, with nothing attempted; the agent is attempted
\* before any prompt, once, and its failure does not end the call; the
\* password is asked for only on a session still unauthenticated after the
\* agent attempt, and once.
C15_AuthenticationOrder ==
    [][/\ (pc = "fast" /\ session.authenticated) =>
             (pc' = "idle" /\ result' = "Ok" /\ wire' = wire)
       /\ Attempted("userauth_agent") =>
             /\ ~session.authenticated
             /\ Ops("userauth_agent") = {} /\ Ops("prompt_password") = {}
             /\ pc' # "done" /\ result' = "running"
       /\ Attempted("prompt_password") =>
             /\ ~session.authenticated
             /\ Ops("userauth_agent") # {}
             /\ Ops("prompt_password") = {}]_vars

\* the agent attempt failed, the password was asked for once, and the
\* session was returned
C15_Witness ==
    /\ result = "Ok"
    /\ \E j \in Ops("userauth_agent") : ~wire[j].ok
    /\ Cardinality(Ops("prompt_password")) = 1

\* op succeeded on channel ch
ChannelOk(ch, op) == \E j \in Ops(op) : wire[j].ch = ch /\ wire[j].ok

\* C16: exec returns Ok exactly when the channel opened, the command
\* started, the output was read and the channel closed, and then it returns
\* the output the command printed, whatever its exit status; it returns Err
\* only after an operation on its channel failed.
C16_ExecIgnoresExitStatus ==
    (call.fn = "exec" /\ call.ret \in {"Ok", "Err"}) =>
        /\ call.ret = "Ok" <=>
              \A op \in {"channel_session", "exec", "read_to_string", "wait_close"} :
                 ChannelOk(call.ch, op)
        /\ call.ret = "Ok" => call.val = RemoteOutput(call.cmd, call.status)
        /\ call.ret = "Err" => \E j \in DOMAIN wire : wire[j].ch = call.ch /\ ~wire[j].ok

\* exec returned the output of a command that ended with status 1
C16_Witness ==
    /\ call.fn = "exec"
    /\ call.ret = "Ok"
    /\ call.status = 1
    /\ call.val = RemoteOutput(call.cmd, 1)

\* the operations of a sudo call, in the order of the code
SudoOps == <<"channel_session", "request_pty", "exec", "write", "flush",
             "read_to_string", "wait_close">>

\* the channels of the sudo calls
SudoChannels == {wire[j].ch : j \in {k \in DOMAIN wire : wire[k].by = "sudo"}}

\* what was attempted on channel ch, in order
OnChannel(ch) ==
    LET Test(e) == e.ch = ch
    IN  SelectSeq(wire, Test)

\* C17: every sudo call works on a channel of its own, on which it requests
\* a pseudo-terminal, starts "sudo -S -p '' <command>", writes the password
\* and a newline once, flushes, and only then reads: nothing is read on a
\* sudo channel on which the password was not written.
C17_PasswordPerSudo ==
    \A ch \in SudoChannels :
        LET ev == OnChannel(ch)
        IN  /\ Len(ev) <= Len(SudoOps)
            /\ \A j \in DOMAIN ev :
                  /\ ev[j].by = "sudo"
                  /\ ev[j].op = SudoOps[j]
                  /\ ev[j].op = "exec" => \E cmd \in Cmds : ev[j].data = SudoCmd(cmd)
                  /\ ev[j].op = "write" => \E pw \in Passwords : ev[j].data = PasswordLine(pw)
                  /\ ev[j].op = "read_to_string" =>
                        Cardinality({k \in 1..(j - 1) : ev[k].op = "write" /\ ev[k].ok}) = 1

\* two sudo calls have returned Ok on one session, each after writing the
\* password on its channel
C17_Witness ==
    /\ Cardinality(SudoChannels) = 2
    /\ call.ret = "Ok"
    /\ \A ch \in SudoChannels :
          /\ ChannelOk(ch, "write")
          /\ ChannelOk(ch, "wait_close")

\* ------------------------------------------------------------------------
\* Properties of the set command (SpecSet)
\* ------------------------------------------------------------------------

\* the names apt-get gives to the checksum kinds of the known set
KnownKindNames == {"SHA256", "MD5Sum"}

\* the text of a line is not a well-formed print-uris line: a field is
\* missing, the size is no number, the checksum kind is not of the known set
\* or lacks its value, or the URI does not parse
BadLine(line) ==
    \/ Len(line) < 4
    \/ ~UrlParse(Unquote(line[1])).ok
    \/ ~ParseU64(line[3]).ok
    \/ /\ line[4] # <<"">>
       /\ \/ line[4][1] \notin KnownKindNames
          \/ Len(line[4]) < 2

SomeBadLine == \E j \in DOMAIN print_uris : BadLine(print_uris[j])

\* C18: resolution is all-or-nothing.  When a line of the output does not
\* parse, no step of the set command changes the manifest file of the image
\* name, and the command does not return Ok.
C18_ResolutionAllOrNothing ==
    [][SomeBadLine => (disk' = disk /\ result' # "Ok")]_vars

\* the command has ended with an error on an output whose first line is
\* well formed and whose second is not, the manifest of an earlier run being
\* still on disk
C18_Witness ==
    /\ pc = "done"
    /\ result = "Err"
    /\ Len(print_uris) = 2
    /\ ~BadLine(print_uris[1])
    /\ BadLine(print_uris[2])
    /\ pkg_data[1].state = "Ok"
    /\ disk = TomlFile(to_string(PrevManifest).doc)

\* the kind a checksum name of apt-get stands for
KindNamed(name) == IF name = "SHA256" THEN "SHA256" ELSE "MD5"

\* C19: a well-formed line whose checksum field names SHA256 or MD5Sum is
\* parsed into an entry with that checksum kind and the value of the field;
\* it is not an error.
C19_KnownKindsAccepted ==
    \A j \in DOMAIN pkg_data :
        (/\ task[j] = "done"
         /\ ~BadLine(print_uris[j])
         /\ print_uris[j][4] # <<"">>) =>
            /\ pkg_data[j].state = "Ok"
            /\ Unwrap(pkg_data[j].entry).checksum =
                  Some(Checksum(KindNamed(print_uris[j][4][1]), print_uris[j][4][2]))

\* the file name of each line of the output, in the order of the lines
EmittedNames == [j \in DOMAIN print_uris |-> LastSegment(Unquote(print_uris[j][1]))]

\* C20: in Install and Upgrade mode install_order is, at every turn of the
\* store loop, the file names of the lines stored so far in the order of the
\* output, whatever the order in which the workers parsed them; the manifest
\* that is saved lists the file names of all lines in that order.
C20_EmissionOrder ==
    built.mode # "Update" =>
        /\ pc \in {"set_store", "set_save"} =>
              built.install_order = SubSeq(EmittedNames, 1, i - 1)
        /\ pc = "set_save" => Unwrap(uri_file).install_order = EmittedNames
        /\ (pc = "done" /\ result = "Ok") =>
              from_str(disk.doc).val.install_order = EmittedNames

\* a manifest was saved for two lines that the workers had parsed last line
\* first, the second file name sorting before the first
C20_Witness ==
    /\ pc = "done"
    /\ result = "Ok"
    /\ built.mode = "Install"
    /\ Len(print_uris) = 2
    /\ EmittedNames = <<LastSegment(HttpUriB), LastSegment(HttpUri)>>
    /\ from_str(disk.doc).val.install_order = EmittedNames

\* the operation cmd was attempted and failed
Failed(cmd) == \E j \in DOMAIN log : log[j].cmd = cmd /\ ~log[j].ok

\* C23: a failing sudo call does not stop the remaining steps of its phase:
\* a run of install whose move into the archive directory failed has still
\* issued the removal of the temporary directory when it ends.
C23_SudoFailureContinues ==
    (pc = "done" /\ Failed("mv")) => Issued("rm -rf")

\* ------------------------------------------------------------------------
\* Properties of the manifest as a whole
\* ------------------------------------------------------------------------

\* install_order and the keys of packages agree one to one
OneToOne(u) ==
    /\ \A f \in DOMAIN u.packages :
          Cardinality({j \in DOMAIN u.install_order : u.install_order[j] = f}) = 1
    /\ \A j \in DOMAIN u.install_order : u.install_order[j] \in DOMAIN u.packages

\* C21: in every Install or Upgrade manifest that load accepts, every key of
\* packages appears exactly once in install_order and every element of
\* install_order is a key of packages.
C21_OrderMatchesKeys ==
    (Loaded /\ Unwrap(uri_file).mode # "Update") => OneToOne(Unwrap(uri_file))

\* the manifest file is missing, malformed or holds an invalid URI
BadManifest == ~load(disk, FileOrder(disk)).ok

\* C22: when the manifest file is missing, malformed or holds an invalid
\* URI, the install command opens no SSH connection and runs no remote
\* command: no remote operation of the run succeeds.
C22_ManifestErrorsBeforeNetwork ==
    BadManifest => \A j \in DOMAIN log : ~log[j].ok

\* C24: the manifest file is written by the set command only: no step of
\* get, install or update changes, truncates or removes it; set touches it in
\* its save step only, and a set that returns Ok has replaced whatever the
\* file held by the manifest it resolved.
C24_ManifestLifecycle ==
    [][/\ command \in {"get", "install", "update"} => disk' = disk
       /\ (command = "set" /\ pc # "set_save") => disk' = disk
       /\ (command = "set" /\ result' = "Ok" /\ result # "Ok") =>
             disk' = TomlFile(to_string(Unwrap(uri_file)).doc)]_vars

\* C24: an install that went through upload, verification, dpkg and the
\* clean-up, the manifest file still there
C24_Witness ==
    /\ command = "install"
    /\ pc = "done"
    /\ result = "Ok"
    /\ Issued("dpkg -i")
    /\ Issued("rm -rf")
    /\ disk.state = "toml"

\* what the manifest file may hold if a save is all or nothing: what it held
\* before the set command ran, or the manifest being saved
WholeManifests ==
    {NoFile, TomlFile(to_string(PrevManifest).doc)} \cup
    (IF uri_file = None THEN {} ELSE {TomlFile(to_string(Unwrap(uri_file)).doc)})

\* C25: whatever happens to a save, a write error part-way included, the
\* manifest file holds the complete previous content or the complete new
\* content, never an empty or partly written document.
C25_AtomicSave == disk \in WholeManifests

\* ------------------------------------------------------------------------
\* Properties of the update command (SpecUpdate)
\* ------------------------------------------------------------------------

\* the index files an upload was attempted for before position j of the log
UploadedBefore(j) == {log[k].arg : k \in {x \in 1..(j - 1) : log[x].cmd = "scp_upload"}}

\* C26: the lists directory is moved aside before any index is uploaded;
\* every index listed and still in the cache has had its upload attempted
\* before the uploads are moved into /var/lib/apt/lists, and no upload
\* follows that move; "apt-cache gencaches" is the last operation and comes
\* directly after the move, which returned Ok.
C26_UpdateOrdering ==
    \A j \in DOMAIN log :
        /\ log[j].cmd = "scp_upload" =>
              \E k \in 1..(j - 1) : log[k].cmd = MoveAside /\ log[k].ok
        /\ log[j].cmd = MoveIntoPlace =>
              /\ \A k \in DOMAIN log : log[k].cmd = "scp_upload" => k < j
              /\ \A x \in DOMAIN order :
                    order[x] \in UploadedBefore(j) \/ order[x] \notin files.entries
        /\ log[j].cmd = Gencaches =>
              /\ j = Len(log)
              /\ j > 1
              /\ log[j - 1].cmd = MoveIntoPlace
              /\ log[j - 1].ok

\* C26: an update that ended well after two uploads, one of which failed
C26_Witness ==
    /\ pc = "done"
    /\ result = "Ok"
    /\ Len(ArgsOf(log, "scp_upload")) = 2
    /\ Failed("scp_upload")
    /\ Issued(Gencaches)

\* the manifest of the image was resolved in Install or Upgrade mode
NotUpdateImage == disk.state = "toml" /\ from_str(disk.doc).val.mode # "Update"

\* the remote steps of the update command that change the target
UpdateSteps == {MkTmp, MoveAside, MkLists, TouchLock, "scp_upload", MoveIntoPlace, Gencaches}

\* C31: for an image whose manifest has mode Install or Upgrade, the update
\* command changes nothing on the remote: it moves no lists directory,
\* uploads nothing and does not regenerate the cache.
C31_UpdateOnlyInUpdateMode ==
    NotUpdateImage => \A j \in DOMAIN log : log[j].cmd \notin UpdateSteps

\* C37: missing sources.  On an image without a local sources directory the
\* update command issues no remote command that changes the target (no
\* mkdir, no move of the lists, no upload, no cache rebuild), leaves the
\* target as it was, and ends in an error.
C37_MissingSourcesChangesNothing ==
    ~files.exists =>
        /\ \A j \in DOMAIN log : log[j].cmd \notin UpdateSteps
        /\ remote = [f \in Lists |-> "absent"]
        /\ pc = "done" => result \in {"Err", "Panic"}

\* a run that connected, found no sources directory and ended in Err
C37_Witness ==
    /\ ~files.exists
    /\ pc = "done"
    /\ result = "Err"
    /\ faults = 0
    /\ LastCmd = "connect"

\* ------------------------------------------------------------------------
\* Properties of the directory upload (SpecUpload)
\* ------------------------------------------------------------------------

\* C27: a mkdir that fails (the directory exists) does not end the upload;
\* the first file whose upload fails ends it at once with Err, whatever the
\* depth, leaving every other remote path as it was; and a file once
\* uploaded stays on the remote whatever happens later.
C27_DirectoryUpload ==
    [][/\ FailedNow({"mkdir"}) => (pc' # "done" /\ result' = "running")
       /\ FailedNow({"upload_file"}) =>
             /\ pc' = "done"
             /\ result' = "Err"
             /\ \A q \in UploadPaths \ {log'[Len(log')].arg} : remote'[q] = remote[q]
       /\ \A q \in UploadPaths : remote[q] = "full" => remote'[q] = "full"]_vars

\* C27: an upload into a directory that existed, ended by the failure of a
\* file after another file had been uploaded and before a further entry of
\* the root was reached
C27_Witness ==
    /\ pc = "done"
    /\ result = "Err"
    /\ Failed("mkdir")
    /\ Failed("upload_file")
    /\ \E j \in DOMAIN log : log[j].cmd = "upload_file" /\ log[j].ok /\ remote[log[j].arg] = "full"
    /\ \E j \in DOMAIN files.entries :
          files.entries[j] = "file" /\ \A k \in DOMAIN log : log[k].arg # <<j>>

\* ------------------------------------------------------------------------
\* Properties of the index download (SpecIndex)
\* ------------------------------------------------------------------------

\* C30: two different repositories never share a local index file; and after
\* a download in which nothing failed, every repository of the source lists
\* has its index, whole, in the lists directory.
C30_IndexPerRepository ==
    /\ \A u, v \in DOMAIN task : u # v => DestPath(u) # DestPath(v)
    /\ (pc = "done" /\ result = "Ok" /\ faults = 0) =>
          \A u \in DOMAIN task : \E f \in ListsPaths : files[f] = Index("full", u)

\* ------------------------------------------------------------------------
\* Properties of the install run as a whole (Spec)
\* ------------------------------------------------------------------------

\* log entry k is a checksum command on file f that returned the digest the
\* manifest records for f
ComparedEqual(k, f) ==
    /\ log[k].cmd \in ChecksumTools
    /\ log[k].arg = f
    /\ log[k].ok
    /\ f \in DOMAIN Unwrap(uri_file).packages
    /\ Unwrap(uri_file).packages[f].checksum # None
    /\ ActualChecksum(log[k].out) = Unwrap(Unwrap(uri_file).packages[f].checksum).value

\* C32: every file handed to "dpkg -i" is a key of packages whose remote
\* checksum was compared and found equal earlier in the same run.
C32_VerifiedBeforeInstalled ==
    \A j \in DOMAIN log :
        log[j].cmd = "dpkg -i" =>
            \E k \in 1..(j - 1) : ComparedEqual(k, log[j].arg)

\* C33: phase ordering.  In an install run every upload attempt precedes every
\* checksum command and every checksum command precedes every "dpkg -i"; when
\* the first "dpkg -i" is issued, every package of the manifest has been
\* compared and found equal.
C33_PhaseOrdering ==
    /\ \A j \in At("scp_upload") :
          \A k \in DOMAIN log : log[k].cmd \in ChecksumTools \cup {"dpkg -i"} => j < k
    /\ \A k \in DOMAIN log :
          log[k].cmd \in ChecksumTools => \A j \in At("dpkg -i") : k < j
    /\ Issued("dpkg -i") =>
          \A f \in DOMAIN Unwrap(uri_file).packages :
              \E k \in DOMAIN log : ComparedEqual(k, f)

\* a run that uploaded two packages, verified both and installed both
C33_Witness ==
    /\ pc = "done"
    /\ result = "Ok"
    /\ Cardinality(At("scp_upload")) = 2
    /\ Cardinality({k \in DOMAIN log : log[k].cmd \in ChecksumTools}) = 2
    /\ Cardinality(At("dpkg -i")) = 2

\* the packages with a checksum whose upload failed in this run
FailedUploads ==
    {log[j].arg : j \in {n \in At("scp_upload") :
        /\ ~log[n].ok
        /\ Unwrap(uri_file).packages[log[n].arg].checksum # None}}

\* log entry k is a checksum command on file f that returned something else
\* than the digest the manifest records for f
ComparedDifferent(k, f) ==
    /\ log[k].cmd \in ChecksumTools
    /\ log[k].arg = f
    /\ log[k].ok
    /\ ActualChecksum(log[k].out) # Unwrap(Unwrap(uri_file).packages[f].checksum).value

VerificationFailed ==
    \/ MismatchSeen
    \/ \E k \in DOMAIN log : log[k].cmd \in ChecksumTools /\ ~log[k].ok

\* C35: aborted apply.  After a failed verification the run issues no move
\* into the archive directory and no removal of the temporary directory;
\* every file it uploaded is still in the temporary directory and nothing
\* reached the archive directory.
C35_AbortedApplyKeepsFiles ==
    VerificationFailed =>
        /\ ~Issued("mv")
        /\ ~Issued("rm -rf")
        /\ archives = {}
        /\ \A j \in At("scp_upload") : log[j].ok => remote[log[j].arg] \in Contents

\* a run that uploaded two files, found a differing digest, and ended in Err
\* with the files where the upload put them
C35_Witness ==
    /\ pc = "done"
    /\ result = "Err"
    /\ MismatchSeen
    /\ LastCmd = "cd $HOME"
    /\ Cardinality({j \in At("scp_upload") : log[j].ok}) = 2
    /\ \A f \in DOMAIN Unwrap(uri_file).packages : remote[f] \in Contents

\* ------------------------------------------------------------------------
\* Properties of the parallel download (SpecGet)
\* ------------------------------------------------------------------------

\* the local paths the worker of package k has created, written or removed
\* so far in this batch
Touched(k) ==
    IF task[k] \in {"write", "decompress"} THEN {k}
    ELSE IF task[k] = "remove" THEN {k, with_extension_empty(k)}
    ELSE IF task[k] = "ok"
         THEN IF Unwrap(uri_file).mode = "Update" /\ extension(k) = Some("xz")
              THEN {k, with_extension_empty(k)} ELSE {k}
    ELSE {}

\* C36: no two workers of a batch create, write or remove the same local
\* path, the decompressed output path included.
C36_NoWriteRace ==
    \A j \in DOMAIN task : \A k \in DOMAIN task :
        j # k => Touched(j) \cap Touched(k) = {}

\* the commands run issues once, whatever the manifest holds
OnceCmds == {"connect", "whoami", "mkdir -p", "cd", "cd $HOME", "dpkg --configure -a", "mv", "rm -rf"}

\* the number of commands cmd issued with argument f
Times(cmds, f) == Cardinality({j \in DOMAIN log : log[j].cmd \in cmds /\ log[j].arg = f})

\* no step of the run is repeated: one upload and one checksum command at
\* most per key of packages, one "dpkg -i" at most per element of
\* install_order, and each other command at most once
NoRepeat ==
    /\ \A c \in OnceCmds : Cardinality(At(c)) <= 1
    /\ \A j \in DOMAIN log :
          log[j].cmd \in OnceCmds \cup ChecksumTools \cup {"scp_upload", "dpkg -i"}
    /\ Loaded =>
          /\ \A j \in DOMAIN log :
                log[j].cmd \in ChecksumTools \cup {"scp_upload"} =>
                    /\ log[j].arg \in DOMAIN Unwrap(uri_file).packages
                    /\ Times({"scp_upload"}, log[j].arg) = 1
                    /\ Times(ChecksumTools, log[j].arg) <= 1
          /\ Cardinality(At("dpkg -i")) <= Len(Unwrap(uri_file).install_order)
    /\ ~Loaded => \A j \in DOMAIN log : log[j].cmd \in OnceCmds

\* C38: termination of the apply.  When every remote call returns, the
\* install command ends, and on the way no step is retried or repeated.
C38_ApplyTerminates == []NoRepeat /\ <>(pc = "done")

\* a run that ended in success after 2 uploads, 2 checksum commands, 2
\* installs and the 7 commands around them
C38_Witness ==
    /\ pc = "done"
    /\ result = "Ok"
    /\ faults = 0
    /\ Cardinality(At("scp_upload")) = 2
    /\ Cardinality(At("dpkg -i")) = 2
    /\ Len(log) = 13

====
